---- MODULE Spec2Model ----
(***************************************************************************)
(* Model of the OpenShell CLI bridge: the conversation orchestrator        *)
(* (ChatService), the session store (SessionStore) with its durable file,  *)
(* and the incremental output coalescer (createStreamEditController).      *)
(***************************************************************************)
EXTENDS Integers, Sequences, FiniteSets, TLC

(***************************************************************************)
(* Bounds of the model.                                                    *)
(***************************************************************************)
\* Number of askStream calls issued in one behaviour.
MaxRequests == 3

Requests == 1..MaxRequests

\* Number of queue calls made on one coalescer before the final flush.
MaxQueueCalls == 3

\* Ticks of the clock after the coalescer is created.
MaxTicks == 5

\* intervalMs of the coalescer, in ticks (STREAM_EDIT_INTERVAL_MS).
IntervalTicks == 2

\* Texts handed to queue and flush (the bot prefixes every text, so none
\* is empty).
CoTexts == {"x", "y"}

\* "No request": Promise.resolve() as the predecessor of a lock entry.
NoRequest == 0

\* Conversation keys (opaque strings in the program).
Keys == {"a", "b"}

\* src/types.ts: providerNames, in declaration order.
providerNames == <<"codex", "claude">>

ProviderNameSet == {providerNames[i] : i \in 1..Len(providerNames)}

\* Number of operations other than askStream (reset, getters, setters)
\* issued in one behaviour of the chat service.
MaxOps == 1

\* parseMaxHistory accepts 2..200; the model runs the smallest value, an odd
\* value and an even value that keeps two exchanges.
MinMaxHistory == 2

MaxHistoryValues == {MinMaxHistory, MinMaxHistory + 1, MinMaxHistory + 2}

\* Configurations a process is started with: the provider registry
\* (createProviderRegistry registers codex first, then claude, each only if
\* its command resolves), DEFAULT_PROVIDER, SYSTEM_PROMPT ("" when unset)
\* and MAX_HISTORY.
Configs ==
    {[providers |-> {}, defaultProvider |-> "codex", systemPrompt |-> "",
      maxHistory |-> MinMaxHistory],
     [providers |-> {"codex"}, defaultProvider |-> "claude", systemPrompt |-> "sys",
      maxHistory |-> MinMaxHistory + 1],
     [providers |-> {"codex"}, defaultProvider |-> "codex", systemPrompt |-> "",
      maxHistory |-> MinMaxHistory + 2],
     [providers |-> {"codex", "claude"}, defaultProvider |-> "claude", systemPrompt |-> "sys",
      maxHistory |-> MinMaxHistory]}

\* The text the caller passes with each askStream call (the bot never
\* passes an empty text; the service never looks inside it).
TextOf(r) ==
    <<"u1", "u2", "u3", "u4", "u5">>[r]

\* Texts a caller passes to SessionStore.appendExchange.
UserTexts == {"u1"}

\* Final replies an adapter returns (always trimmed and non-empty).
Replies == {"r1"}

\* Strings are sequences of characters where the code looks inside them.
Blank == <<" ">>

\* Values a caller passes as a model / reasoning-effort override
\* (<<>> is both undefined and the empty string: both are falsy).
OverrideInputs == {<<>>, Blank, <<"m">>, <<" ", "m">>}

\* Override values the callers of ChatService pass while requests run.
ChatOverrideInputs == {<<>>, <<"m">>}

\* Identifiers a caller passes to ChatService.setProvider.
ProviderInputs == {"codex", "claude", "gpt"}

VARIABLES
    \* ---- configuration of the running process
    providers,      \* ChatService.providers: the configured provider names
    systemPrompt,   \* ChatService.systemPrompt ("" when not configured)
    defaultProvider,\* SessionStore.defaultProvider
    maxHistory,     \* SessionStore.maxHistory
    \* ---- SessionStore
    sessions,       \* SessionStore.sessions: key -> ChatSession
    file,           \* the durable file at persistencePath
    \* ---- ChatService
    chatLocks,      \* ChatService.chatLocks: key -> request whose tail is stored
    pc,             \* position of each askStream call
    key,            \* chatKey argument of each call
    userText,       \* userText argument of each call
    previous,       \* withChatLock local: the request whose tail is awaited
    released,       \* whether releaseCurrent() of the call has run
    local,          \* askStream locals: providerName, prompt, selected overrides
    ops,            \* number of operations other than askStream issued so far
    \* ---- coalescer
    pending,        \* <<>> for null, <<text>> for a pending text
    lastApplied,    \* the text of the last edit that completed
    lastEditAt,     \* Date.now() when that edit completed
    processing,     \* whether a drain loop is active
    drain,          \* position of the drain loop (run) and its local `text`
    flushCall,      \* the caller of flush: its text, its promise, and how
                    \* many calls of edit had been made when it called
    now,            \* Date.now(), in ticks
    published,      \* history: every call of edit, with the time it started
    calls,          \* history: every text handed to queue or flush
    \* ---- runJsonlCli: one invocation of the executor
    output,         \* history: every character the child wrote to stdout
    stdoutBuffer,   \* the characters read and not yet split into a line
    callbackQueue,  \* the promise chain: whether it rejected, and the lines
                    \* whose handler call is chained and has not started
    handling,       \* the handler call that is running, if any
    failed,         \* the flag `failed`
    child,          \* the child process: running, closed, and whether kill
                    \* was called on it
    closing,        \* whether the close handler is at `await callbackQueue`,
                    \* and the exit code it holds
    settled,        \* the promise runJsonlCli returned
    deliveries,     \* history: starts and ends of the handler calls
    \* ---- ClaudeCliProvider.stream / CodexCliProvider.stream: one call
    adapter,        \* which provider class the call is made on
    runningReply,   \* the local `reply`
    finalResult,    \* the local `finalResult` (Claude)
    cliErrorMessage,\* the local `cliErrorMessage` (Codex)
    emitted,        \* history: every call of onStatus and onText
    seen,           \* history: the lines processed, the first terminal
                    \* success line, the first structured error line, the
                    \* result of the executor
    stream,         \* the promise stream returned
    \* ---- the Telegram bot
    ownerUserId,    \* TelegramOwnerStore.ownerUserId (<<>> for undefined)
    ownerFile,      \* the durable owner file (<<>> when there is none)
    botLog,         \* history: the chat-service operations the handlers
                    \* made, each with the sender of the update
    \* ---- SessionStore.persist, call by call on the file system
    tempFile,       \* the file at `${persistencePath}.tmp`
    persisting,     \* position of the running call of persist
    snapshots,      \* history: every document persist was called to write
    \* ---- truncateForPlatform: one call
    truncation      \* its arguments, and its result once it returned

config == <<providers, systemPrompt, defaultProvider, maxHistory>>

lockVars == <<chatLocks, pc, key, userText, previous, released, local>>

chatVars == <<config, sessions, file, lockVars, ops>>

coVars == <<pending, lastApplied, lastEditAt, processing, drain, flushCall, now,
            published, calls>>

exVars == <<output, stdoutBuffer, callbackQueue, handling, failed, child,
            closing, settled, deliveries>>

adVars == <<adapter, runningReply, finalResult, cliErrorMessage, emitted, seen, stream>>

pipeVars == <<exVars, adVars>>

botVars == <<ownerUserId, ownerFile, botLog>>

diskVars == <<tempFile, persisting, snapshots>>

vars == <<chatVars, coVars, pipeVars, botVars, diskVars, truncation>>

(***************************************************************************)
(* Strings and small helpers.                                              *)
(***************************************************************************)
RECURSIVE TrimStart(_)
\* String.prototype.trim, leading part.
TrimStart(s) ==
    IF s # <<>> /\ Head(s) = " " THEN TrimStart(Tail(s)) ELSE s

RECURSIVE TrimEnd(_)
\* String.prototype.trim, trailing part.
TrimEnd(s) ==
    IF s # <<>> /\ s[Len(s)] = " " THEN TrimEnd(SubSeq(s, 1, Len(s) - 1)) ELSE s

\* String.prototype.trim.
Trim(s) ==
    TrimEnd(TrimStart(s))

\* Map.set / property assignment on a map with a finite key set.
Put(m, k, v) ==
    [x \in DOMAIN m \cup {k} |-> IF x = k THEN v ELSE m[x]]

\* Map.delete / the delete operator.
Remove(m, k) ==
    [x \in DOMAIN m \ {k} |-> m[x]]

\* The empty Map / the empty object {}.
EmptyMap == <<>>

\* Array.prototype.slice(-n) for n >= 1.
SliceLast(seq, n) ==
    IF Len(seq) <= n THEN seq ELSE SubSeq(seq, Len(seq) - n + 1, Len(seq))

(***************************************************************************)
(* SessionStore.                                                           *)
(***************************************************************************)
\* The session getOrCreate builds for a key it has not seen.
NewSession ==
    [provider |-> defaultProvider,
     history |-> <<>>,
     modelOverrides |-> EmptyMap,
     reasoningEffortOverrides |-> EmptyMap]

\* SessionStore.getOrCreate: the session map with a session for chatKey.
getOrCreate(s, chatKey) ==
    IF chatKey \in DOMAIN s THEN s ELSE Put(s, chatKey, NewSession)

\* A persist that leaves out the sessions without history.
PersistedDocumentWithHistoryOnly(s) ==
    [kind |-> "json", version |-> 1,
     sessions |-> [k \in {x \in DOMAIN s : s[x].history # <<>>} |-> s[k]]]

\* SessionStore.persist: the document written to the temporary file and
\* renamed over the store file (savedAt is never read back).
PersistedDocument(s) ==
    [kind |-> "json", version |-> 1, sessions |-> s]

\* A load that keeps whatever the file holds.
trimHistoryKeepAll(history) ==
    history

\* SessionStore.trimHistory (used when loading).
trimHistory(history) ==
    IF Len(history) <= maxHistory
    THEN history
    ELSE LET trimmed == SliceLast(history, maxHistory)
         IN  IF trimmed[1].role = "assistant" THEN Tail(trimmed) ELSE trimmed

\* A trim that drops the oldest entry alone when the limit is passed.
appendExchangeHistoryDropOne(history, userTextArg, assistantText) ==
    LET pushed == history \o <<[role |-> "user", content |-> userTextArg],
                               [role |-> "assistant", content |-> assistantText]>>
    IN  IF Len(pushed) > maxHistory THEN Tail(pushed) ELSE pushed

\* A trim that keeps the oldest entries: slice(0, maxHistory).
appendExchangeHistoryKeepOldest(history, userTextArg, assistantText) ==
    LET pushed == history \o <<[role |-> "user", content |-> userTextArg],
                               [role |-> "assistant", content |-> assistantText]>>
    IN  IF Len(pushed) > maxHistory THEN SubSeq(pushed, 1, maxHistory) ELSE pushed

\* A trim that keeps the last maxHistory entries whatever the first one is.
appendExchangeHistoryNoDrop(history, userTextArg, assistantText) ==
    SliceLast(history \o <<[role |-> "user", content |-> userTextArg],
                           [role |-> "assistant", content |-> assistantText]>>,
              maxHistory)

\* SessionStore.appendExchange, the history it leaves.
appendExchangeHistory(history, userTextArg, assistantText) ==
    LET pushed == history \o <<[role |-> "user", content |-> userTextArg],
                               [role |-> "assistant", content |-> assistantText]>>
    IN  IF Len(pushed) > maxHistory
        THEN LET trimmed == SliceLast(pushed, maxHistory)
             IN  IF trimmed[1].role = "assistant" THEN Tail(trimmed) ELSE trimmed
        ELSE pushed

\* SessionStore.appendExchange, the session map it leaves.
appendExchange(s, chatKey, userTextArg, assistantText) ==
    LET s1 == getOrCreate(s, chatKey)
    IN  [s1 EXCEPT ![chatKey].history =
            appendExchangeHistory(@, userTextArg, assistantText)]

\* A reset that empties the history and keeps the session.
storeResetHistoryOnly(s, chatKey) ==
    [getOrCreate(s, chatKey) EXCEPT ![chatKey].history = <<>>]

\* SessionStore.reset, the session map it leaves.
storeReset(s, chatKey) ==
    Remove(s, chatKey)

\* SessionStore.setProvider, the session map it leaves.
storeSetProvider(s, chatKey, provider) ==
    [getOrCreate(s, chatKey) EXCEPT ![chatKey].provider = provider]

\* The override map setModel / setReasoningEffort leave: blank deletes the
\* entry, anything else is stored trimmed.
setOverride(overrides, provider, value) ==
    IF Trim(value) = <<>>
    THEN Remove(overrides, provider)
    ELSE Put(overrides, provider, Trim(value))

\* SessionStore.setModel, the session map it leaves.
storeSetModel(s, chatKey, provider, model) ==
    [getOrCreate(s, chatKey) EXCEPT
        ![chatKey].modelOverrides = setOverride(@, provider, model)]

\* SessionStore.setReasoningEffort, the session map it leaves.
storeSetReasoningEffort(s, chatKey, provider, effort) ==
    [getOrCreate(s, chatKey) EXCEPT
        ![chatKey].reasoningEffortOverrides = setOverride(@, provider, effort)]

\* A prompt that puts the new turn before the history.
buildPromptTurnFirst(s, chatKey, userTextArg, systemPromptArg) ==
    (IF systemPromptArg # ""
     THEN <<[role |-> "system", content |-> systemPromptArg]>>
     ELSE <<>>)
    \o <<[role |-> "user", content |-> userTextArg]>>
    \o getOrCreate(s, chatKey)[chatKey].history

\* SessionStore.buildPrompt: system message if configured, history, new turn.
buildPrompt(s, chatKey, userTextArg, systemPromptArg) ==
    (IF systemPromptArg # ""
     THEN <<[role |-> "system", content |-> systemPromptArg]>>
     ELSE <<>>)
    \o getOrCreate(s, chatKey)[chatKey].history
    \o <<[role |-> "user", content |-> userTextArg]>>

\* normalizeProvider.
normalizeProvider(value, fallback) ==
    IF value \in ProviderNameSet THEN value ELSE fallback

\* A load that forgets the overrides.
normalizeOverridesNone(input) ==
    EmptyMap

\* normalizeOverrides: only known providers with a non-blank value, trimmed.
normalizeOverrides(input) ==
    [p \in {q \in ProviderNameSet : q \in DOMAIN input /\ Trim(input[q]) # <<>>}
        |-> Trim(input[p])]

\* normalizeHistory, the test an item has to pass.
KeepsMessage(item) ==
    item.role \in {"user", "assistant"} /\ item.content # ""

\* normalizeHistory.
normalizeHistory(input) ==
    LET kept == SelectSeq(input, KeepsMessage)
    IN  [i \in 1..Len(kept) |-> [role |-> kept[i].role, content |-> kept[i].content]]

\* A load that reads the sessions of every document that parses.
loadFromDiskAnyVersion(f) ==
    IF f.kind # "json"
    THEN EmptyMap
    ELSE [k \in DOMAIN f.sessions |-> NewSession]

\* SessionStore.loadFromDisk: the session map a new store starts with.
\* The kind of a file is "json" when it parses to an object whose sessions
\* field is an object, "nomap" when it parses to anything else.
loadFromDisk(f) ==
    IF f.kind # "json" \/ f.version # 1
    THEN EmptyMap
    ELSE [k \in DOMAIN f.sessions |->
            [provider |-> normalizeProvider(f.sessions[k].provider, defaultProvider),
             history |-> trimHistory(normalizeHistory(f.sessions[k].history)),
             modelOverrides |-> normalizeOverrides(f.sessions[k].modelOverrides),
             reasoningEffortOverrides |->
                 normalizeOverrides(f.sessions[k].reasoningEffortOverrides)]]

\* The history a reader of chatKey sees (getOrCreate(chatKey).history).
Hist(chatKey) ==
    IF chatKey \in DOMAIN sessions THEN sessions[chatKey].history ELSE <<>>

(***************************************************************************)
(* ChatService.                                                            *)
(***************************************************************************)
\* Positions of an askStream call:
\*   idle     not issued yet
\*   waiting  inside withChatLock at `await previous.catch(...)`
\*   running  inside the task at `await provider.stream(...)`
\*   done     returned {provider, reply}
\*   failed   threw
\*   aborted  the process was restarted while the call was waiting or running
Terminal == {"done", "failed", "aborted"}

\* The askStream locals before the task has set them.
NoLocal ==
    [providerName |-> "", prompt |-> <<>>, model |-> <<>>, effort |-> <<>>]

\* A lock map shared by every conversation.
LockKeyGlobal(chatKey) ==
    "a"

\* The key under which withChatLock files a call: chatLocks.get(chatKey).
LockKey(chatKey) ==
    chatKey

RECURSIVE TailResolved(_)
\* Whether `tail` of request q is resolved:
\* tail = previous.catch(...).then(() => current).
TailResolved(q) ==
    /\ released[q]
    /\ IF previous[q] = NoRequest THEN TRUE ELSE TailResolved(previous[q])

\* A lock that lets a call start as soon as the one before it has started.
PreviousResolvedOnceBegun(r) ==
    IF previous[r] = NoRequest THEN TRUE ELSE pc[previous[r]] # "waiting"

\* withChatLock without `await previous`.
PreviousResolvedNoWait(r) ==
    TRUE

\* Whether the promise a call awaits before its task is resolved.
PreviousResolved(r) ==
    IF previous[r] = NoRequest THEN TRUE ELSE TailResolved(previous[r])

\* A `finally` that deletes the entry without comparing it with `tail`.
ReleasedLocksAlways(r) ==
    Remove(chatLocks, LockKey(key[r]))

\* A `finally` that never deletes the entry.
ReleasedLocksNever(r) ==
    chatLocks

\* The `finally` of withChatLock: the lock map it leaves.
ReleasedLocks(r) ==
    IF LockKey(key[r]) \in DOMAIN chatLocks /\ chatLocks[LockKey(key[r])] = r
    THEN Remove(chatLocks, LockKey(key[r]))
    ELSE chatLocks

\* getAvailableProviders()[0]: the first registered provider.
FirstAvailable ==
    providerNames[CHOOSE i \in 1..Len(providerNames) :
        /\ providerNames[i] \in providers
        /\ \A j \in 1..(i - 1) : providerNames[j] \notin providers]

\* The override a getter returns (<<>> for undefined).
OverrideOf(overrides, provider) ==
    IF provider \in DOMAIN overrides THEN overrides[provider] ELSE <<>>

\* appendExchange moved into a `finally`: a failed turn is recorded too.
SessionsAfterStreamAlways(r, ok, reply) ==
    appendExchange(sessions, key[r], userText[r], IF ok THEN reply ELSE "error")

\* askStream after `await provider.stream(...)`: appendExchange runs only
\* when the await did not throw.
SessionsAfterStream(r, ok, reply) ==
    IF ok THEN appendExchange(sessions, key[r], userText[r], reply) ELSE sessions

\* `releaseCurrent?.()` in the `finally`, reached when the task returned.
ReleasedOnReturn(r) ==
    [released EXCEPT ![r] = TRUE]

\* A release placed after `await task()` instead of in a `finally`.
ReleasedOnThrowMissing(r) ==
    released

\* `releaseCurrent?.()` in the `finally`, reached when the task threw.
ReleasedOnThrow(r) ==
    [released EXCEPT ![r] = TRUE]

\* askStream is called: withChatLock up to its first await.
AskStreamCalled(r, chatKey) ==
    /\ pc[r] = "idle"
    /\ \A q \in Requests : q < r => pc[q] # "idle"
    /\ key' = [key EXCEPT ![r] = chatKey]
    /\ userText' = [userText EXCEPT ![r] = TextOf(r)]
    /\ previous' = [previous EXCEPT ![r] =
            IF LockKey(chatKey) \in DOMAIN chatLocks
            THEN chatLocks[LockKey(chatKey)] ELSE NoRequest]
    /\ chatLocks' = Put(chatLocks, LockKey(chatKey), r)
    /\ pc' = [pc EXCEPT ![r] = "waiting"]
    /\ UNCHANGED <<truncation, diskVars, pipeVars, coVars, config, file, released, local, ops>>

\* A caller of the service calls askStream.
Arrive(r, chatKey) ==
    /\ AskStreamCalled(r, chatKey)
    /\ UNCHANGED <<truncation, diskVars, botVars, sessions>>

\* When the task of a waiting call may start: `await previous` has resumed.
MayBegin(r) ==
    pc[r] = "waiting" /\ PreviousResolved(r)

\* The task starts and no provider is available: it throws, and the
\* `finally` releases the slot.
BeginNoProvider(r) ==
    /\ MayBegin(r)
    /\ getOrCreate(sessions, key[r])[key[r]].provider \notin providers
    /\ providers = {}
    /\ sessions' = getOrCreate(sessions, key[r])
    /\ released' = ReleasedOnThrow(r)
    /\ chatLocks' = ReleasedLocks(r)
    /\ pc' = [pc EXCEPT ![r] = "failed"]
    /\ UNCHANGED <<truncation, diskVars, botVars, pipeVars, coVars, config, file, key, userText, previous, local, ops>>

\* A fallback that is used for the call and not stored.
FallbackNotStored(s, chatKey, name) ==
    s

\* `this.sessions.setProvider(chatKey, fallback)` in askStream.
FallbackStored(s, chatKey, name) ==
    storeSetProvider(s, chatKey, name)

\* The task starts: provider resolution (with the persisted fallback),
\* buildPrompt, the override getters, and the call of provider.stream.
Begin(r) ==
    /\ MayBegin(r)
    /\ LET s1 == getOrCreate(sessions, key[r])
           stored == s1[key[r]].provider
           fallback == stored \notin providers
           name == IF fallback THEN FirstAvailable ELSE stored
           s2 == IF fallback THEN FallbackStored(s1, key[r], name) ELSE s1
       IN  /\ fallback => providers # {}
           /\ sessions' = s2
           /\ file' = IF fallback THEN PersistedDocument(s2) ELSE file
           /\ local' = [local EXCEPT ![r] =
                  [providerName |-> name,
                   prompt |-> buildPrompt(s2, key[r], userText[r], systemPrompt),
                   model |-> OverrideOf(s2[key[r]].modelOverrides, name),
                   effort |-> OverrideOf(s2[key[r]].reasoningEffortOverrides, name)]]
    /\ pc' = [pc EXCEPT ![r] = "running"]
    /\ UNCHANGED <<truncation, diskVars, botVars, pipeVars, coVars, config, chatLocks, key, userText, previous, released, ops>>

\* provider.stream returns a reply: appendExchange, return, release.
AdapterReturn(r, reply) ==
    /\ pc[r] = "running"
    /\ sessions' = SessionsAfterStream(r, TRUE, reply)
    /\ file' = PersistedDocument(sessions')
    /\ released' = ReleasedOnReturn(r)
    /\ chatLocks' = ReleasedLocks(r)
    /\ pc' = [pc EXCEPT ![r] = "done"]
    /\ local' = [local EXCEPT ![r] = NoLocal]
    /\ UNCHANGED <<truncation, diskVars, botVars, pipeVars, coVars, config, key, userText, previous, ops>>

\* provider.stream throws (structured error, non-zero exit, empty reply,
\* spawn failure): the task throws and the `finally` releases the slot.
AdapterThrow(r) ==
    /\ pc[r] = "running"
    /\ sessions' = SessionsAfterStream(r, FALSE, "")
    /\ released' = ReleasedOnThrow(r)
    /\ chatLocks' = ReleasedLocks(r)
    /\ pc' = [pc EXCEPT ![r] = "failed"]
    /\ local' = [local EXCEPT ![r] = NoLocal]
    /\ UNCHANGED <<truncation, diskVars, botVars, pipeVars, coVars, config, file, key, userText, previous, ops>>

\* ChatService.reset -> SessionStore.reset.
Reset(chatKey) ==
    /\ sessions' = storeReset(sessions, chatKey)
    /\ file' = PersistedDocument(sessions')
    /\ UNCHANGED <<truncation, diskVars, botVars, pipeVars, coVars, config, lockVars>>
    /\ ops < MaxOps
    /\ ops' = ops + 1

\* ChatService.getProvider / getModel / getReasoningEffort: a read that
\* creates the session when the key is new, without persisting.
Getter(chatKey) ==
    /\ chatKey \notin DOMAIN sessions
    /\ sessions' = getOrCreate(sessions, chatKey)
    /\ UNCHANGED <<truncation, diskVars, botVars, pipeVars, coVars, config, file, lockVars>>
    /\ ops < MaxOps
    /\ ops' = ops + 1

\* ChatService.setProvider: unknown and unconfigured identifiers throw.
SetProvider(chatKey, provider) ==
    /\ provider \in ProviderNameSet
    /\ provider \in providers
    /\ sessions' = storeSetProvider(sessions, chatKey, provider)
    /\ file' = PersistedDocument(sessions')
    /\ UNCHANGED <<truncation, diskVars, botVars, pipeVars, coVars, config, lockVars>>
    /\ ops < MaxOps
    /\ ops' = ops + 1

\* ChatService.setModel: an unconfigured provider throws.
SetModel(chatKey, provider, model) ==
    /\ provider \in providers
    /\ sessions' = storeSetModel(sessions, chatKey, provider, model)
    /\ file' = PersistedDocument(sessions')
    /\ UNCHANGED <<truncation, diskVars, botVars, pipeVars, coVars, config, lockVars>>
    /\ ops < MaxOps
    /\ ops' = ops + 1

\* ChatService.setReasoningEffort: an unconfigured provider throws.
SetReasoningEffort(chatKey, provider, effort) ==
    /\ provider \in providers
    /\ sessions' = storeSetReasoningEffort(sessions, chatKey, provider, effort)
    /\ file' = PersistedDocument(sessions')
    /\ UNCHANGED <<truncation, diskVars, botVars, pipeVars, coVars, config, lockVars>>
    /\ ops < MaxOps
    /\ ops' = ops + 1

\* The store and the service right after construction with no store file.
ChatInit ==
    /\ \E c \in Configs :
          /\ providers = c.providers
          /\ defaultProvider = c.defaultProvider
          /\ systemPrompt = c.systemPrompt
          /\ maxHistory = c.maxHistory
    /\ file = [kind |-> "missing", version |-> 0, sessions |-> EmptyMap]
    /\ sessions = loadFromDisk(file)
    /\ chatLocks = EmptyMap
    /\ pc = [r \in Requests |-> "idle"]
    /\ key = [r \in Requests |-> "a"]
    /\ userText = [r \in Requests |-> "u1"]
    /\ previous = [r \in Requests |-> NoRequest]
    /\ released = [r \in Requests |-> FALSE]
    /\ local = [r \in Requests |-> NoLocal]
    /\ ops = 0

Next ==
    \/ \E r \in Requests, k \in Keys : Arrive(r, k)
    \/ \E r \in Requests : BeginNoProvider(r)
    \/ \E r \in Requests : Begin(r)
    \/ \E r \in Requests, a \in Replies : AdapterReturn(r, a)
    \/ \E r \in Requests : AdapterThrow(r)
    \/ \E k \in Keys : Reset(k)
    \/ \E k \in Keys : Getter(k)
    \/ \E k \in Keys, p \in ProviderInputs : SetProvider(k, p)
    \/ \E k \in Keys, p \in ProviderNameSet, m \in ChatOverrideInputs : SetModel(k, p, m)
    \/ \E k \in Keys, p \in ProviderNameSet, e \in ChatOverrideInputs :
            SetReasoningEffort(k, p, e)

\* The coalescer right after createStreamEditController.  Date.now() is
\* far beyond intervalMs, so the first edit never waits.
CoInit ==
    /\ pending = <<>>
    /\ lastApplied = ""
    /\ lastEditAt = 0
    /\ processing = FALSE
    /\ drain = [pc |-> "idle", text |-> "", wakeAt |-> 0, owner |-> "none"]
    /\ flushCall = [state |-> "none", text |-> "", from |-> 0]
    /\ now = IntervalTicks
    /\ published = <<>>
    /\ calls = <<>>

\* No handler call is running.
NotHandling ==
    [state |-> "none", line |-> <<>>]

\* runJsonlCli right after spawn, with stdin written and closed.
ExInit ==
    /\ output = <<>>
    /\ stdoutBuffer = <<>>
    /\ callbackQueue = [rejected |-> FALSE, lines |-> <<>>]
    /\ handling = NotHandling
    /\ failed = FALSE
    /\ child = [state |-> "running", killed |-> FALSE]
    /\ closing = [awaiting |-> FALSE, code |-> 0]
    /\ settled = [state |-> "pending", code |-> 0, error |-> ""]
    /\ deliveries = <<>>

\* Nothing seen yet by a call of stream.
NothingSeen ==
    [lines |-> 0,
     terminal |-> [seen |-> FALSE, text |-> <<>>, emitted |-> 0],
     error |-> [seen |-> FALSE, message |-> <<>>],
     exit |-> [seen |-> FALSE, code |-> 0]]

\* The promise of stream while the executor runs.
StreamPending ==
    [state |-> "pending", value |-> <<>>, error |-> "", detail |-> <<>>]

\* The locals of stream when it calls runJsonlCli.
AdLocals ==
    /\ runningReply = <<>>
    /\ finalResult = <<>>
    /\ cliErrorMessage = <<>>
    /\ emitted = <<>>
    /\ seen = NothingSeen
    /\ stream = StreamPending

\* No call of stream is studied.
AdIdle ==
    adapter = "claude" /\ AdLocals

\* The executor and the adapters, not started.
PipeIdle ==
    ExInit /\ AdIdle

\* A file that does not exist.
MissingFile ==
    [kind |-> "missing", version |-> 0, sessions |-> EmptyMap]

\* No call of persist is running or was made, and there is no temporary
\* file.
DiskIdle ==
    tempFile = MissingFile /\ persisting = "no" /\ snapshots = {}

\* No call of truncateForPlatform is studied.
TruncIdle ==
    truncation = [text |-> <<>>, limit |-> 0, result |-> <<>>, returned |-> FALSE]

\* The bot is not started (no owner store, no update handled), persist is
\* not followed call by call, and no text is truncated.
BotIdle ==
    ownerUserId = <<>> /\ ownerFile = <<>> /\ botLog = {} /\ DiskIdle /\ TruncIdle

Init ==
    ChatInit /\ CoInit /\ PipeIdle /\ BotIdle

Spec ==
    Init /\ [][Next]_vars

\* Scheduling of the event loop: a task whose awaited promise is resolved
\* is resumed.  The adapter invocations on key "b" terminate; those on any
\* other key may never return (a hung subprocess).
AdapterEnds(r) ==
    /\ key[r] = "b"
    /\ AdapterThrow(r) \/ \E a \in Replies : AdapterReturn(r, a)

LiveSpec ==
    /\ Spec
    /\ \A r \in Requests :
          /\ WF_vars(Begin(r))
          /\ WF_vars(BeginNoProvider(r))
          /\ WF_vars(AdapterEnds(r))

(***************************************************************************)
(* SessionStore on its own: any sequence of its public operations, and     *)
(* the process being stopped and started again on the same file.           *)
(***************************************************************************)
\* Everything but the store and its configuration.
notStore == <<pipeVars, coVars, providers, systemPrompt, lockVars, ops>>

\* SessionStore.appendExchange.
StoreAppendExchange(chatKey, text, reply) ==
    /\ sessions' = appendExchange(sessions, chatKey, text, reply)
    /\ file' = PersistedDocument(sessions')
    /\ UNCHANGED <<truncation, diskVars, botVars, notStore, defaultProvider, maxHistory>>

\* SessionStore.reset.
StoreReset(chatKey) ==
    /\ sessions' = storeReset(sessions, chatKey)
    /\ file' = PersistedDocument(sessions')
    /\ UNCHANGED <<truncation, diskVars, botVars, notStore, defaultProvider, maxHistory>>

\* SessionStore.getProvider / getModel / getReasoningEffort / buildPrompt on
\* a new key: the session is created and not persisted.
StoreGetter(chatKey) ==
    /\ chatKey \notin DOMAIN sessions
    /\ sessions' = getOrCreate(sessions, chatKey)
    /\ UNCHANGED <<truncation, diskVars, botVars, notStore, defaultProvider, maxHistory, file>>

\* SessionStore.setProvider.
StoreSetProvider(chatKey, provider) ==
    /\ sessions' = storeSetProvider(sessions, chatKey, provider)
    /\ file' = PersistedDocument(sessions')
    /\ UNCHANGED <<truncation, diskVars, botVars, notStore, defaultProvider, maxHistory>>

\* SessionStore.setModel.
StoreSetModel(chatKey, provider, model) ==
    /\ sessions' = storeSetModel(sessions, chatKey, provider, model)
    /\ file' = PersistedDocument(sessions')
    /\ UNCHANGED <<truncation, diskVars, botVars, notStore, defaultProvider, maxHistory>>

\* SessionStore.setReasoningEffort.
StoreSetReasoningEffort(chatKey, provider, effort) ==
    /\ sessions' = storeSetReasoningEffort(sessions, chatKey, provider, effort)
    /\ file' = PersistedDocument(sessions')
    /\ UNCHANGED <<truncation, diskVars, botVars, notStore, defaultProvider, maxHistory>>

\* The process is stopped and started again, possibly with another
\* MAX_HISTORY: a new SessionStore is constructed on the same file.
StoreReload(newMaxHistory) ==
    /\ maxHistory' = newMaxHistory
    /\ UNCHANGED <<truncation, diskVars, botVars, notStore, defaultProvider, file>>
    /\ sessions' = loadFromDisk(file)'

\* A store constructed with no file on disk, no request issued.
StoreInit ==
    /\ providers = {}
    /\ systemPrompt = ""
    /\ defaultProvider \in ProviderNameSet
    /\ maxHistory \in MaxHistoryValues
    /\ file = [kind |-> "missing", version |-> 0, sessions |-> EmptyMap]
    /\ sessions = loadFromDisk(file)
    /\ chatLocks = EmptyMap
    /\ pc = [r \in Requests |-> "idle"]
    /\ key = [r \in Requests |-> "a"]
    /\ userText = [r \in Requests |-> "u1"]
    /\ previous = [r \in Requests |-> NoRequest]
    /\ released = [r \in Requests |-> FALSE]
    /\ local = [r \in Requests |-> NoLocal]
    /\ ops = 0
    /\ CoInit
    /\ PipeIdle
    /\ BotIdle

StoreNext ==
    \/ \E k \in Keys, u \in UserTexts, a \in Replies : StoreAppendExchange(k, u, a)
    \/ \E k \in Keys : StoreReset(k)
    \/ \E k \in Keys : StoreGetter(k)
    \/ \E k \in Keys, p \in ProviderNameSet : StoreSetProvider(k, p)
    \/ \E k \in Keys, p \in ProviderNameSet, m \in OverrideInputs :
            StoreSetModel(k, p, m)
    \/ \E k \in Keys, p \in ProviderNameSet, e \in OverrideInputs :
            StoreSetReasoningEffort(k, p, e)
    \/ \E mh \in MaxHistoryValues : StoreReload(mh)

StoreSpec ==
    StoreInit /\ [][StoreNext]_vars

\* What the store file may hold before the first store is constructed on
\* it: nothing, text that is not JSON, a document of another version, or a
\* version 1 document written by hand (unknown provider, messages of other
\* roles or with empty content, blank overrides, more messages than
\* MAX_HISTORY allows).
ForeignMessages ==
    <<[role |-> "system", content |-> "s"],
      [role |-> "assistant", content |-> "r0"],
      [role |-> "user", content |-> "u0"],
      [role |-> "assistant", content |-> "r1"],
      [role |-> "user", content |-> ""],
      [role |-> "assistant", content |-> "r2"],
      [role |-> "user", content |-> "u1"]>>

ForeignSession ==
    [provider |-> "gpt",
     history |-> ForeignMessages,
     modelOverrides |-> ("codex" :> <<" ", "m">>) @@ ("gpt" :> <<"m">>),
     reasoningEffortOverrides |-> ("claude" :> Blank)]

InitialFiles ==
    {MissingFile,
     [kind |-> "garbage", version |-> 0, sessions |-> EmptyMap],
     [kind |-> "json", version |-> 2, sessions |-> ("a" :> ForeignSession)],
     [kind |-> "nomap", version |-> 1, sessions |-> EmptyMap],
     [kind |-> "json", version |-> 1, sessions |-> ("a" :> ForeignSession)]}

\* A store constructed on a file it did not necessarily write.
FileInit ==
    /\ providers = {}
    /\ systemPrompt = ""
    /\ defaultProvider \in ProviderNameSet
    /\ maxHistory \in MaxHistoryValues
    /\ file \in InitialFiles
    /\ sessions = loadFromDisk(file)
    /\ chatLocks = EmptyMap
    /\ pc = [r \in Requests |-> "idle"]
    /\ key = [r \in Requests |-> "a"]
    /\ userText = [r \in Requests |-> "u1"]
    /\ previous = [r \in Requests |-> NoRequest]
    /\ released = [r \in Requests |-> FALSE]
    /\ local = [r \in Requests |-> NoLocal]
    /\ ops = 0
    /\ CoInit
    /\ PipeIdle
    /\ BotIdle

FileSpec ==
    FileInit /\ [][StoreNext]_vars

(***************************************************************************)
(* createStreamEditController: the incremental output coalescer.           *)
(***************************************************************************)
\* The drain loop is not running.
DrainIdle ==
    [pc |-> "idle", text |-> "", wakeAt |-> 0, owner |-> "none"]

\* A loop that skips only the empty text.
SkippedOnlyEmpty(text, applied) ==
    text = ""

\* `!text || text === lastApplied`: the text is skipped.
Skipped(text, applied) ==
    text = "" \/ text = applied

\* A drain loop that never waits between edits.
WaitForNothing(editAt) ==
    0

\* `intervalMs - (Date.now() - lastEditAt)`.
WaitFor(editAt) ==
    IntervalTicks - (now - editAt)

\* The drain loop from the top of `while (pending !== null)` to its next
\* await or its exit, for the given pending value, last applied text and
\* last edit time: the new pending value, loop position and processing flag.
\* A skipped text leaves pending null, so the loop exits after it.
LoopFrom(pend, applied, editAt, owner) ==
    IF pend = <<>> \/ Skipped(pend[1], applied)
    THEN [pending |-> <<>>, drain |-> DrainIdle, processing |-> FALSE]
    ELSE IF WaitFor(editAt) > 0
         THEN [pending |-> <<>>, processing |-> TRUE,
               drain |-> [pc |-> "sleeping", text |-> pend[1],
                          wakeAt |-> now + WaitFor(editAt), owner |-> owner]]
         ELSE [pending |-> <<>>, processing |-> TRUE,
               drain |-> [pc |-> "editing", text |-> pend[1],
                          wakeAt |-> 0, owner |-> owner]]

\* A loop that calls edit with the text applied last, when there is one.
EditStartedStale(text) ==
    [text |-> IF lastApplied = "" THEN text ELSE lastApplied, at |-> now]

\* The record of a call of edit that starts now.
EditStarted(text) ==
    [text |-> text, at |-> now]

\* What a step of the loop that may call edit adds to the published history.
PublishedAfter(next) ==
    IF next.drain.pc = "editing"
    THEN Append(published, EditStarted(next.drain.text))
    ELSE published

\* The promise of flush after a step of the loop: `await run()` returns
\* when the run that flush started leaves the loop.
FlushAfter(next, owner) ==
    IF owner = "flush" /\ next.drain.pc = "idle"
    THEN [flushCall EXCEPT !.state = "resolved"]
    ELSE flushCall

\* A run() without the test of the processing flag.
RunReturnsAtOnceNever ==
    FALSE

\* `if (processing) return;`: run() returns at once while a drain loop is
\* active.
RunReturnsAtOnce ==
    processing

\* queue(text): set pending, start run() without awaiting it.
Queue(text) ==
    /\ flushCall.state = "none"
    /\ Len(calls) < MaxQueueCalls
    /\ calls' = Append(calls, text)
    /\ IF RunReturnsAtOnce
       THEN /\ pending' = <<text>>
            /\ UNCHANGED <<truncation, diskVars, botVars, drain, processing, published>>
       ELSE LET next == LoopFrom(<<text>>, lastApplied, lastEditAt, "queue")
            IN  /\ pending' = next.pending
                /\ drain' = next.drain
                /\ processing' = next.processing
                /\ published' = PublishedAfter(next)
    /\ UNCHANGED <<truncation, diskVars, botVars, lastApplied, lastEditAt, flushCall, now, chatVars, pipeVars>>

\* flush(text): set pending, await run().  run() returns at once when a
\* drain loop is already active.
Flush(text) ==
    /\ flushCall.state = "none"
    /\ calls' = Append(calls, text)
    /\ IF RunReturnsAtOnce
       THEN /\ pending' = <<text>>
            /\ flushCall' = [state |-> "resolved", text |-> text,
                             from |-> Len(published)]
            /\ UNCHANGED <<truncation, diskVars, botVars, drain, processing, published>>
       ELSE LET next == LoopFrom(<<text>>, lastApplied, lastEditAt, "flush")
            IN  /\ pending' = next.pending
                /\ drain' = next.drain
                /\ processing' = next.processing
                /\ published' = PublishedAfter(next)
                /\ flushCall' = [state |-> IF next.drain.pc = "idle"
                                           THEN "resolved" ELSE "awaiting",
                                 text |-> text, from |-> Len(published)]
    /\ UNCHANGED <<truncation, diskVars, botVars, lastApplied, lastEditAt, now, chatVars, pipeVars>>

\* The timer of `await sleep(wait)` fires: edit(text) is called.
Wake ==
    /\ drain.pc = "sleeping"
    /\ now >= drain.wakeAt
    /\ drain' = [drain EXCEPT !.pc = "editing", !.wakeAt = 0]
    /\ published' = Append(published, EditStarted(drain.text))
    /\ UNCHANGED <<truncation, diskVars, botVars, pending, lastApplied, lastEditAt, processing, flushCall, now,
                   calls, chatVars, pipeVars>>

\* `await edit(text)` returns: record the text and the time, loop again.
EditDone ==
    /\ drain.pc = "editing"
    /\ lastApplied' = drain.text
    /\ lastEditAt' = now
    /\ LET next == LoopFrom(pending, drain.text, now, drain.owner)
       IN  /\ pending' = next.pending
           /\ drain' = next.drain
           /\ processing' = next.processing
           /\ published' = PublishedAfter(next)
           /\ flushCall' = FlushAfter(next, drain.owner)
    /\ UNCHANGED <<truncation, diskVars, botVars, now, calls, chatVars, pipeVars>>

\* `await edit(text)` throws: the `finally` clears processing and run()
\* rejects; pending keeps whatever was handed in meanwhile.
EditFails ==
    /\ drain.pc = "editing"
    /\ processing' = FALSE
    /\ drain' = DrainIdle
    /\ flushCall' = IF drain.owner = "flush"
                    THEN [flushCall EXCEPT !.state = "rejected"]
                    ELSE flushCall
    /\ UNCHANGED <<truncation, diskVars, botVars, pending, lastApplied, lastEditAt, now, published, calls, chatVars, pipeVars>>

\* Time passes.
Tick ==
    /\ now < IntervalTicks + MaxTicks
    /\ now' = now + 1
    /\ UNCHANGED <<truncation, diskVars, botVars, pending, lastApplied, lastEditAt, processing, drain, flushCall,
                   published, calls, chatVars, pipeVars>>

\* The chat service, not started, while the coalescer is studied.
ChatIdle ==
    /\ providers = {}
    /\ systemPrompt = ""
    /\ defaultProvider = "codex"
    /\ maxHistory = MinMaxHistory
    /\ file = [kind |-> "missing", version |-> 0, sessions |-> EmptyMap]
    /\ sessions = EmptyMap
    /\ chatLocks = EmptyMap
    /\ pc = [r \in Requests |-> "idle"]
    /\ key = [r \in Requests |-> "a"]
    /\ userText = [r \in Requests |-> "u1"]
    /\ previous = [r \in Requests |-> NoRequest]
    /\ released = [r \in Requests |-> FALSE]
    /\ local = [r \in Requests |-> NoLocal]
    /\ ops = 0

CoStart ==
    ChatIdle /\ CoInit /\ PipeIdle /\ BotIdle

CoNext ==
    \/ \E text \in CoTexts : Queue(text)
    \/ \E text \in CoTexts : Flush(text)
    \/ Wake
    \/ EditDone
    \/ EditFails
    \/ Tick

CoSpec ==
    CoStart /\ [][CoNext]_vars

(***************************************************************************)
(* runJsonlCli: the subprocess streaming executor.                         *)
(***************************************************************************)
\* Characters the child writes to stdout in one invocation.
MaxOutput == 6

\* Characters of the largest chunk one 'data' event carries.
MaxChunk == 2

\* The characters of the output: two letters, a blank and the line feed.
OutChars == {"a", "b", " ", "\n"}

\* The chunks a 'data' event may carry.
Chunks == UNION {[1..n -> OutChars] : n \in 1..MaxChunk}

\* Exit codes of the child.
ExitCodes == {0, 1}

\* stdoutBuffer.indexOf("\n"), counted from 1; 0 when there is none.
IndexOfNewline(s) ==
    IF \E i \in 1..Len(s) : s[i] = "\n"
    THEN CHOOSE i \in 1..Len(s) : s[i] = "\n" /\ \A j \in 1..(i - 1) : s[j] # "\n"
    ELSE 0

RECURSIVE LinesIn(_)
\* The loop of the 'data' handler: the complete lines of the buffer, each
\* trimmed, the empty ones dropped, in order.
LinesIn(buffer) ==
    LET i == IndexOfNewline(buffer)
    IN  IF i = 0
        THEN <<>>
        ELSE LET line == Trim(SubSeq(buffer, 1, i - 1))
             IN  (IF line # <<>> THEN <<line>> ELSE <<>>)
                 \o LinesIn(SubSeq(buffer, i + 1, Len(buffer)))

RECURSIVE RestOf(_)
\* The loop of the 'data' handler: what stays in stdoutBuffer.
RestOf(buffer) ==
    LET i == IndexOfNewline(buffer)
    IN  IF i = 0 THEN buffer ELSE RestOf(SubSeq(buffer, i + 1, Len(buffer)))

\* queue(fn) for each of the lines, in order: the calls are chained behind
\* callbackQueue.  Chained behind a rejected promise they never run, and
\* the catch finds the invocation failed, killed and rejected already.
Queued(q, lines) ==
    IF q.rejected THEN q ELSE [q EXCEPT !.lines = @ \o lines]

\* A chain that starts a call without waiting for the one before it.
MayStartAtOnce ==
    TRUE

\* `callbackQueue.then(...)`: the next call starts when the one before it
\* has completed.
MayStart ==
    handling.state = "none"

\* A close handler that waits until no call is chained, not until the
\* running one has completed.
MayResolveWhenNoneChained ==
    /\ ~callbackQueue.rejected
    /\ callbackQueue.lines = <<>>

\* A close handler that resolves without `await callbackQueue`.
MayResolveAtOnce ==
    TRUE

\* `await callbackQueue` in the close handler returns: every chained call
\* has completed.
MayResolve ==
    /\ ~callbackQueue.rejected
    /\ callbackQueue.lines = <<>>
    /\ handling.state = "none"

\* A 'data' event on stdout.
ExData(chunk) ==
    /\ child.state = "running"
    /\ Len(output) + Len(chunk) <= MaxOutput
    /\ output' = output \o chunk
    /\ stdoutBuffer' = RestOf(stdoutBuffer \o chunk)
    /\ callbackQueue' = Queued(callbackQueue, LinesIn(stdoutBuffer \o chunk))
    /\ UNCHANGED <<truncation, diskVars, botVars, handling, failed, child, closing, settled, deliveries>>
    /\ UNCHANGED <<truncation, diskVars, botVars, chatVars, coVars, adVars>>

\* The next link of the chain runs: `if (failed) return; await fn()`.
ExHandlerStart ==
    /\ MayStart
    /\ ~callbackQueue.rejected
    /\ callbackQueue.lines # <<>>
    /\ callbackQueue' = [callbackQueue EXCEPT !.lines = Tail(@)]
    /\ IF failed
       THEN UNCHANGED <<truncation, diskVars, botVars, handling, deliveries>>
       ELSE /\ handling' = [state |-> "running", line |-> Head(callbackQueue.lines)]
            /\ deliveries' = Append(deliveries,
                   [kind |-> "start", line |-> Head(callbackQueue.lines)])
    /\ UNCHANGED <<truncation, diskVars, botVars, output, stdoutBuffer, failed, child, closing, settled>>
    /\ UNCHANGED <<truncation, diskVars, botVars, chatVars, coVars, adVars>>

\* The handler call completes.
ExHandlerReturns ==
    /\ handling.state = "running"
    /\ handling' = NotHandling
    /\ deliveries' = Append(deliveries, [kind |-> "end", line |-> handling.line])
    /\ UNCHANGED <<truncation, diskVars, botVars, output, stdoutBuffer, callbackQueue, failed, child, closing,
                   settled>>
    /\ UNCHANGED <<truncation, diskVars, botVars, chatVars, coVars, adVars>>

\* The handler call fails: the chain rejects, its catch sets failed, kills
\* the child and rejects; a close handler awaiting the chain rejects with
\* the same error.
ExHandlerThrows ==
    /\ handling.state = "running"
    /\ handling' = NotHandling
    /\ deliveries' = Append(deliveries, [kind |-> "fail", line |-> handling.line])
    /\ callbackQueue' = [rejected |-> TRUE, lines |-> <<>>]
    /\ failed' = TRUE
    /\ child' = [child EXCEPT !.killed = TRUE]
    /\ settled' = IF settled.state = "pending"
                  THEN [state |-> "rejected", code |-> 0, error |-> "handler"]
                  ELSE settled
    /\ UNCHANGED <<truncation, diskVars, botVars, output, stdoutBuffer, closing>>
    /\ UNCHANGED <<truncation, diskVars, botVars, chatVars, coVars, adVars>>

\* A close handler that drops what is left in the buffer.
RemainDropped(buffer) ==
    <<>>

\* `const remain = stdoutBuffer.trim(); if (remain) queue(...)`: the lines
\* the close handler chains.
Remain(buffer) ==
    IF Trim(buffer) # <<>> THEN <<Trim(buffer)>> ELSE <<>>

\* The 'close' event: the trailing text is queued as a last line and the
\* handler waits for the chain.
ExClose(code) ==
    /\ child.state = "running"
    /\ child' = [child EXCEPT !.state = "closed"]
    /\ IF failed
       THEN UNCHANGED <<truncation, diskVars, botVars, callbackQueue, closing>>
       ELSE /\ callbackQueue' =
                   Queued(callbackQueue, Remain(stdoutBuffer))
            /\ closing' = [awaiting |-> TRUE, code |-> code]
    /\ UNCHANGED <<truncation, diskVars, botVars, output, stdoutBuffer, handling, failed, settled, deliveries>>
    /\ UNCHANGED <<truncation, diskVars, botVars, chatVars, coVars, adVars>>

\* `await callbackQueue` returns in the close handler: resolve.
ExResolve ==
    /\ closing.awaiting
    /\ settled.state = "pending"
    /\ MayResolve
    /\ settled' = [state |-> "resolved", code |-> closing.code, error |-> ""]
    /\ UNCHANGED <<truncation, diskVars, botVars, output, stdoutBuffer, callbackQueue, handling, failed, child,
                   closing, deliveries>>
    /\ UNCHANGED <<truncation, diskVars, botVars, chatVars, coVars, adVars>>

\* The 'error' event: the process could not be spawned.
ExSpawnError ==
    /\ child.state = "running"
    /\ output = <<>>
    /\ ~failed
    /\ failed' = TRUE
    /\ child' = [child EXCEPT !.state = "closed"]
    /\ settled' = [state |-> "rejected", code |-> 0, error |-> "spawn"]
    /\ UNCHANGED <<truncation, diskVars, botVars, output, stdoutBuffer, callbackQueue, handling, closing,
                   deliveries>>
    /\ UNCHANGED <<truncation, diskVars, botVars, chatVars, coVars, adVars>>

ExStart ==
    ChatIdle /\ CoInit /\ PipeIdle /\ BotIdle

ExNext ==
    \/ \E chunk \in Chunks : ExData(chunk)
    \/ ExHandlerStart
    \/ ExHandlerReturns
    \/ ExHandlerThrows
    \/ \E code \in ExitCodes : ExClose(code)
    \/ ExResolve
    \/ ExSpawnError

ExSpec ==
    ExStart /\ [][ExNext]_vars

(***************************************************************************)
(* ClaudeCliProvider.stream and CodexCliProvider.stream.  The executor     *)
(* hands the lines to onLine one at a time, rejects with the failure of a  *)
(* handler call, and resolves with the exit code after the last call.      *)
(* The callbacks of the bot (editor.queue) return without failing.         *)
(***************************************************************************)
\* Lines the child writes in one call of stream.
MaxLines == 4

\* A line that JSON.parse rejects.
Noise ==
    [type |-> "noise", is_error |-> FALSE, text |-> <<>>]

\* Lines of the claude CLI: result (failed, with text, with an empty
\* text, with a blank text), assistant message, text delta (a letter, a
\* blank).
ClaudeLines ==
    {Noise,
     [type |-> "result", is_error |-> TRUE, text |-> <<"e">>],
     [type |-> "result", is_error |-> FALSE, text |-> <<"r">>],
     [type |-> "result", is_error |-> FALSE, text |-> <<>>],
     [type |-> "result", is_error |-> FALSE, text |-> Blank],
     [type |-> "assistant", is_error |-> FALSE, text |-> <<"a">>],
     [type |-> "stream_event", is_error |-> FALSE, text |-> <<"d">>],
     [type |-> "stream_event", is_error |-> FALSE, text |-> <<" ">>]}

\* Lines of the codex CLI: command started, error (with a message, with a
\* blank one), turn.failed, agent message, text delta (a letter, a blank),
\* response.completed.
CodexLines ==
    {Noise,
     [type |-> "item.started", is_error |-> FALSE, text |-> <<"c">>],
     [type |-> "error", is_error |-> FALSE, text |-> <<"e">>],
     [type |-> "error", is_error |-> FALSE, text |-> <<" ">>],
     [type |-> "turn.failed", is_error |-> FALSE, text |-> <<"f">>],
     [type |-> "item.completed", is_error |-> FALSE, text |-> <<"a">>],
     [type |-> "response.output_text.delta", is_error |-> FALSE, text |-> <<"d">>],
     [type |-> "response.output_text.delta", is_error |-> FALSE, text |-> <<" ">>],
     [type |-> "response.completed", is_error |-> FALSE, text |-> <<"r">>]}

\* A call of callbacks.onText.
OnText(text) ==
    [kind |-> "text", text |-> text]

\* A call of callbacks.onStatus.
OnStatus(text) ==
    [kind |-> "status", text |-> text]

\* What a call of onLine leaves: the locals, the callbacks it made, and
\* whether it threw.
Handled(newReply, newFinal, newError, made, threw, message) ==
    [reply |-> newReply, finalResult |-> newFinal, cliErrorMessage |-> newError,
     made |-> made, threw |-> threw, message |-> message]

\* A call of onLine that changes nothing.
Ignored ==
    Handled(runningReply, finalResult, cliErrorMessage, <<>>, FALSE, <<>>)

\* ClaudeCliProvider.stream: onLine.
ClaudeOnLine(line) ==
    IF line.type = "result"
    THEN IF line.is_error
         THEN Handled(runningReply, finalResult, cliErrorMessage, <<>>, TRUE,
                      IF line.text # <<>> THEN line.text ELSE <<"?">>)
         ELSE Handled(runningReply, line.text, cliErrorMessage,
                      <<OnText(line.text)>>, FALSE, <<>>)
    ELSE IF line.type = "assistant"
    THEN IF Trim(line.text) # <<>>
         THEN Handled(Trim(line.text), finalResult, cliErrorMessage,
                      <<OnText(Trim(line.text))>>, FALSE, <<>>)
         ELSE Ignored
    ELSE IF line.type = "stream_event"
    THEN Handled(runningReply \o line.text, finalResult, cliErrorMessage,
                 <<OnText(runningReply \o line.text)>>, FALSE, <<>>)
    ELSE Ignored

\* extractCodexErrorMessage for a message that is not JSON.
extractCodexErrorMessage(raw) ==
    Trim(raw)

\* A codex adapter that hands each delta alone to onText.
CodexOnLineDeltaAlone(line) ==
    IF line.type = "item.started"
    THEN IF line.text # <<>>
         THEN Handled(runningReply, finalResult, cliErrorMessage,
                      <<OnStatus(line.text)>>, FALSE, <<>>)
         ELSE Ignored
    ELSE IF line.type \in {"error", "turn.failed"}
    THEN IF extractCodexErrorMessage(line.text) # <<>>
         THEN Handled(runningReply, finalResult, extractCodexErrorMessage(line.text),
                      <<>>, FALSE, <<>>)
         ELSE Ignored
    ELSE IF line.type \in {"item.completed", "response.completed"}
    THEN Handled(line.text, finalResult, cliErrorMessage,
                 <<OnText(line.text)>>, FALSE, <<>>)
    ELSE IF line.type = "response.output_text.delta" /\ line.text # <<>>
    THEN Handled(runningReply \o line.text, finalResult, cliErrorMessage,
                 <<OnText(line.text)>>, FALSE, <<>>)
    ELSE Ignored

\* CodexCliProvider.stream: onLine.
CodexOnLine(line) ==
    IF line.type = "item.started"
    THEN IF line.text # <<>>
         THEN Handled(runningReply, finalResult, cliErrorMessage,
                      <<OnStatus(line.text)>>, FALSE, <<>>)
         ELSE Ignored
    ELSE IF line.type \in {"error", "turn.failed"}
    THEN IF extractCodexErrorMessage(line.text) # <<>>
         THEN Handled(runningReply, finalResult, extractCodexErrorMessage(line.text),
                      <<>>, FALSE, <<>>)
         ELSE Ignored
    ELSE IF line.type \in {"item.completed", "response.completed"}
    THEN Handled(line.text, finalResult, cliErrorMessage,
                 <<OnText(line.text)>>, FALSE, <<>>)
    ELSE IF line.type = "response.output_text.delta" /\ line.text # <<>>
    THEN Handled(runningReply \o line.text, finalResult, cliErrorMessage,
                 <<OnText(runningReply \o line.text)>>, FALSE, <<>>)
    ELSE Ignored

\* The promise of stream, fulfilled with a reply.
Returned(text) ==
    [state |-> "returned", value |-> text, error |-> "", detail |-> <<>>]

\* The promise of stream, rejected.
Threw(error, detail) ==
    [state |-> "threw", value |-> <<>>, error |-> error, detail |-> detail]

\* A claude adapter that returns the text it has whatever the exit code.
ClaudeOutcomeTolerant(code) ==
    LET finalReply == Trim(IF finalResult # <<>> THEN finalResult ELSE runningReply)
    IN  IF code # 0 /\ finalReply = <<>> THEN Threw("exit", <<>>)
        ELSE IF finalReply = <<>> THEN Threw("empty", <<>>)
        ELSE Returned(finalReply)

\* ClaudeCliProvider.stream after `await runJsonlCli(...)`.
ClaudeOutcome(code) ==
    LET finalReply == Trim(IF finalResult # <<>> THEN finalResult ELSE runningReply)
    IN  IF code # 0 THEN Threw("exit", <<>>)
        ELSE IF finalReply = <<>> THEN Threw("empty", <<>>)
        ELSE Returned(finalReply)

\* A codex adapter as strict as the claude one.
CodexOutcomeStrict(code) ==
    IF code # 0 THEN Threw("exit", Trim(cliErrorMessage))
    ELSE IF Trim(runningReply) = <<>> THEN Threw("empty", <<>>)
    ELSE Returned(Trim(runningReply))

\* A codex adapter that takes the reply as it is when the exit code is 0.
CodexOutcomeNoEmptyCheck(code) ==
    IF code # 0 /\ ~(Trim(runningReply) # <<>> /\ cliErrorMessage = <<>>)
    THEN Threw("exit", Trim(cliErrorMessage))
    ELSE Returned(Trim(runningReply))

\* CodexCliProvider.stream after `await runJsonlCli(...)`.
CodexOutcome(code) ==
    LET finalReply == Trim(runningReply)
    IN  IF code # 0
        THEN IF finalReply # <<>> /\ cliErrorMessage = <<>>
             THEN Returned(finalReply)
             ELSE Threw("exit", Trim(cliErrorMessage))
        ELSE IF finalReply = <<>> THEN Threw("empty", <<>>)
        ELSE Returned(finalReply)

\* The record of the lines seen, after one more line.
SeenAfter(line, isTerminal, isError, message, emittedAfter) ==
    [seen EXCEPT
        !.lines = @ + 1,
        !.terminal = IF isTerminal /\ ~@.seen
                     THEN [seen |-> TRUE, text |-> line.text, emitted |-> emittedAfter]
                     ELSE @,
        !.error = IF isError /\ ~@.seen
                  THEN [seen |-> TRUE, message |-> message]
                  ELSE @]

\* The executor hands a line to onLine of the claude adapter.
ClaudeLine(line) ==
    /\ adapter = "claude"
    /\ stream.state = "pending"
    /\ ~seen.exit.seen
    /\ seen.lines < MaxLines
    /\ LET h == ClaudeOnLine(line)
       IN  /\ runningReply' = h.reply
           /\ finalResult' = h.finalResult
           /\ cliErrorMessage' = h.cliErrorMessage
           /\ emitted' = emitted \o h.made
           /\ stream' = IF h.threw THEN Threw("structured", h.message) ELSE stream
           /\ seen' = SeenAfter(line,
                                line.type = "result" /\ ~line.is_error,
                                line.type = "result" /\ line.is_error,
                                line.text,
                                Len(emitted) + Len(h.made))
    /\ UNCHANGED <<truncation, diskVars, botVars, adapter, chatVars, coVars, exVars>>

\* The executor hands a line to onLine of the codex adapter.
CodexLine(line) ==
    /\ adapter = "codex"
    /\ stream.state = "pending"
    /\ ~seen.exit.seen
    /\ seen.lines < MaxLines
    /\ LET h == CodexOnLine(line)
       IN  /\ runningReply' = h.reply
           /\ finalResult' = h.finalResult
           /\ cliErrorMessage' = h.cliErrorMessage
           /\ emitted' = emitted \o h.made
           /\ stream' = IF h.threw THEN Threw("structured", h.message) ELSE stream
           /\ seen' = SeenAfter(line,
                                line.type = "response.completed",
                                line.type \in {"error", "turn.failed"},
                                extractCodexErrorMessage(line.text),
                                Len(emitted) + Len(h.made))
    /\ UNCHANGED <<truncation, diskVars, botVars, adapter, chatVars, coVars, exVars>>

\* The executor resolves with the exit code: the claude adapter settles.
ClaudeExit(code) ==
    /\ adapter = "claude"
    /\ stream.state = "pending"
    /\ stream' = ClaudeOutcome(code)
    /\ seen' = [seen EXCEPT !.exit = [seen |-> TRUE, code |-> code]]
    /\ UNCHANGED <<truncation, diskVars, botVars, adapter, runningReply, finalResult, cliErrorMessage, emitted,
                   chatVars, coVars, exVars>>

\* The executor resolves with the exit code: the codex adapter settles.
CodexExit(code) ==
    /\ adapter = "codex"
    /\ stream.state = "pending"
    /\ stream' = CodexOutcome(code)
    /\ seen' = [seen EXCEPT !.exit = [seen |-> TRUE, code |-> code]]
    /\ UNCHANGED <<truncation, diskVars, botVars, adapter, runningReply, finalResult, cliErrorMessage, emitted,
                   chatVars, coVars, exVars>>

\* The executor rejects because the process could not be spawned.
AdSpawnFails ==
    /\ stream.state = "pending"
    /\ seen.lines = 0
    /\ stream' = Threw("spawn", <<>>)
    /\ UNCHANGED <<truncation, diskVars, botVars, adapter, runningReply, finalResult, cliErrorMessage, emitted,
                   seen, chatVars, coVars, exVars>>

\* A call of stream on either adapter, at `await runJsonlCli(...)`.
AdStart ==
    /\ ChatIdle /\ CoInit /\ ExInit /\ BotIdle
    /\ adapter \in ProviderNameSet
    /\ AdLocals

AdNext ==
    \/ \E line \in ClaudeLines : ClaudeLine(line)
    \/ \E line \in CodexLines : CodexLine(line)
    \/ \E code \in ExitCodes : ClaudeExit(code)
    \/ \E code \in ExitCodes : CodexExit(code)
    \/ AdSpawnFails

AdSpec ==
    AdStart /\ [][AdNext]_vars

(***************************************************************************)
(* SessionStore.persist on the file system: the temporary file is written, *)
(* then renamed over the store file; the process may die between any two   *)
(* of these calls and be started again.                                    *)
(***************************************************************************)
\* Number of mutating operations in one behaviour.
MaxPersists == 3

\* A file whose content stops in the middle of a document.
PartialFile ==
    [kind |-> "partial", version |-> 0, sessions |-> EmptyMap]

\* A persist that writes the store file in place.
StoreFileWhileWritingInPlace(current) ==
    PartialFile

\* The store file while writeFileSync(tempPath, ...) is under way.
StoreFileWhileWriting(current) ==
    current

\* A mutating operation changed the session map and called persist, which
\* is about to write.
Mutated(next) ==
    /\ persisting = "no"
    /\ ops < MaxPersists
    /\ ops' = ops + 1
    /\ sessions' = next
    /\ persisting' = "called"
    /\ snapshots' = snapshots \cup {PersistedDocument(next)}

\* appendExchange up to the call of writeFileSync.
DiskAppendExchange(chatKey, text, reply) ==
    /\ Mutated(appendExchange(sessions, chatKey, text, reply))
    /\ UNCHANGED <<truncation, botVars, pipeVars, coVars, config, lockVars, file, tempFile>>

\* reset up to the call of writeFileSync.
DiskReset(chatKey) ==
    /\ Mutated(storeReset(sessions, chatKey))
    /\ UNCHANGED <<truncation, botVars, pipeVars, coVars, config, lockVars, file, tempFile>>

\* setModel up to the call of writeFileSync.
DiskSetModel(chatKey, provider, model) ==
    /\ Mutated(storeSetModel(sessions, chatKey, provider, model))
    /\ UNCHANGED <<truncation, botVars, pipeVars, coVars, config, lockVars, file, tempFile>>

\* writeFileSync(tempPath, ...) has opened the temporary file and written
\* a part of the document.
DiskWriteStarts ==
    /\ persisting = "called"
    /\ persisting' = "writing"
    /\ tempFile' = PartialFile
    /\ file' = StoreFileWhileWriting(file)
    /\ UNCHANGED <<truncation, botVars, pipeVars, coVars, config, lockVars, ops, sessions, snapshots>>

\* writeFileSync returns: the temporary file holds the whole document.
DiskWriteEnds ==
    /\ persisting = "writing"
    /\ persisting' = "written"
    /\ tempFile' = PersistedDocument(sessions)
    /\ UNCHANGED <<truncation, botVars, pipeVars, coVars, config, lockVars, ops, sessions, snapshots,
                   file>>

\* writeFileSync throws (disk full, no permission): persist logs a warning
\* and returns.
DiskWriteFails ==
    /\ persisting = "writing"
    /\ persisting' = "no"
    /\ UNCHANGED <<truncation, botVars, pipeVars, coVars, config, lockVars, ops, sessions, snapshots,
                   file, tempFile>>

\* renameSync(tempPath, persistencePath): one step of the file system.
DiskRename ==
    /\ persisting = "written"
    /\ persisting' = "no"
    /\ file' = tempFile
    /\ tempFile' = MissingFile
    /\ UNCHANGED <<truncation, botVars, pipeVars, coVars, config, lockVars, ops, sessions, snapshots>>

\* The process dies, wherever persist is, and is started again: a new
\* store is constructed on the store file.
DiskCrash ==
    /\ persisting' = "no"
    /\ sessions' = loadFromDisk(file)
    /\ UNCHANGED <<truncation, botVars, pipeVars, coVars, config, lockVars, ops, snapshots, file,
                   tempFile>>

DiskNext ==
    \/ \E k \in Keys, u \in UserTexts, a \in Replies : DiskAppendExchange(k, u, a)
    \/ \E k \in Keys : DiskReset(k)
    \/ \E k \in Keys, p \in ProviderNameSet, m \in ChatOverrideInputs : DiskSetModel(k, p, m)
    \/ DiskWriteStarts
    \/ DiskWriteEnds
    \/ DiskWriteFails
    \/ DiskRename
    \/ DiskCrash

DiskSpec ==
    StoreInit /\ [][DiskNext]_vars

(***************************************************************************)
(* truncateForPlatform.                                                    *)
(***************************************************************************)
\* Longest text and largest limit the function is called with.
MaxText == 20

MaxLimit == 20

\* The default of the parameter `suffix`: "\n\n...[truncated]".
Suffix ==
    <<"\n", "\n", ".", ".", ".", "[", "t", "r", "u", "n", "c", "a", "t", "e", "d", "]">>

\* Texts of every length up to MaxText, of two kinds of content.
TruncTexts ==
    {[i \in 1..n |-> IF i % 2 = 1 THEN c ELSE "-"] : n \in 0..MaxText, c \in {"a", "]"}}

\* text.slice(0, head).
SliceHead(text, head) ==
    SubSeq(text, 1, IF head < Len(text) THEN head ELSE Len(text))

\* truncateForPlatform(text, limit) with the default suffix.
truncateForPlatform(text, limit) ==
    IF Len(text) <= limit
    THEN text
    ELSE LET head == IF limit - Len(Suffix) > 0 THEN limit - Len(Suffix) ELSE 0
         IN  SliceHead(text, head) \o Suffix

\* A call of truncateForPlatform is about to be made.
TruncStart ==
    /\ ChatIdle /\ CoInit /\ PipeIdle
    /\ ownerUserId = <<>> /\ ownerFile = <<>> /\ botLog = {} /\ DiskIdle
    /\ \E text \in TruncTexts, limit \in 0..MaxLimit :
          truncation = [text |-> text, limit |-> limit, result |-> <<>>,
                        returned |-> FALSE]

\* The call returns.
Truncate ==
    /\ ~truncation.returned
    /\ truncation' = [truncation EXCEPT
            !.result = truncateForPlatform(truncation.text, truncation.limit),
            !.returned = TRUE]
    /\ UNCHANGED <<chatVars, coVars, pipeVars, botVars, diskVars>>

TruncNext ==
    Truncate

TruncSpec ==
    TruncStart /\ [][TruncNext]_vars

(***************************************************************************)
(* The Telegram bot: the owner store and the update handlers.              *)
(***************************************************************************)
\* Number of command updates handled in one behaviour of the bot.
MaxCommands == 3

\* Number of text updates of the owner handled in one behaviour of the bot.
MaxTexts == 1

\* String(ctx.from.id) of the senders.
Users == {"1", "2"}

\* A token of a command text, as the string the store is handed.
Chars(token) ==
    <<token>>

\* value.toLowerCase(), on the tokens the model sends.
Lower(token) ==
    IF token = "DEFAULT" THEN "default"
    ELSE IF token = "HIGH" THEN "high" ELSE token

RESET_KEYWORDS == {"default", "reset", "none"}

\* isResetKeyword.
isResetKeyword(value) ==
    value # "" /\ Lower(value) \in RESET_KEYWORDS

CODEX_REASONING_EFFORT_SET == {"none", "minimal", "low", "medium", "high", "xhigh"}

\* The tokens after /model in the updates the model sends.
ModelArgs ==
    {<<>>, <<"claude">>, <<"default">>,
     <<"codex", "gpt-x">>, <<"codex", "DEFAULT">>,
     <<"gpt-x", "HIGH">>, <<"gpt-x", "default">>, <<"gpt-x", "fast">>,
     <<"codex", "gpt-x", "high", "more">>}

\* TelegramOwnerStore.setOwnerUserId, the value it stores.
setOwnerUserId(userId) ==
    Trim(Chars(userId))

\* An owner check that lets every sender pass.
ensureOwnerAnyone(user) ==
    TRUE

\* ensureOwner.
ensureOwner(user) ==
    ownerUserId # <<>> /\ Chars(user) = ownerUserId

\* chatService.setProvider inside try/catch: nothing happens when the
\* provider is not configured.
trySetProvider(s, chatKey, provider) ==
    IF provider \in providers THEN storeSetProvider(s, chatKey, provider) ELSE s

\* A /model handler that hands the model token to the store as it is.
modelCommandNoKeyword(s0, chatKey, args, supported) ==
    LET s == getOrCreate(s0, chatKey)
        explicit == IF args = <<>> THEN FALSE ELSE args[1] \in ProviderNameSet
        target == IF explicit THEN args[1] ELSE s[chatKey].provider
        valueTokens == IF explicit THEN Tail(args) ELSE args
    IN  IF valueTokens = <<>> \/ target \notin providers
        THEN [sessions |-> s, persisted |-> FALSE]
        ELSE [sessions |-> storeSetModel(s, chatKey, target, Chars(valueTokens[1])),
              persisted |-> TRUE]

\* bot.command("model") after ensureOwner: the session map it leaves and
\* whether it persisted.  `supported` is the answer of the model catalog
\* for the effort of a codex model.
modelCommand(s0, chatKey, args, supported) ==
    LET s == getOrCreate(s0, chatKey)
        explicit == IF args = <<>> THEN FALSE ELSE args[1] \in ProviderNameSet
        target == IF explicit THEN args[1] ELSE s[chatKey].provider
        valueTokens == IF explicit THEN Tail(args) ELSE args
        modelArg == valueTokens[1]
        effortArg == IF Len(valueTokens) >= 2 THEN Lower(valueTokens[2]) ELSE ""
        withProvider(x) == IF explicit THEN trySetProvider(x, chatKey, target) ELSE x
        noEffort(x) == storeSetReasoningEffort(x, chatKey, target, <<>>)
        same == [sessions |-> s, persisted |-> FALSE]
    IN  IF explicit /\ Len(args) = 1
        THEN [sessions |-> trySetProvider(s, chatKey, target),
              persisted |-> target \in providers]
        ELSE IF target \notin providers THEN same
        ELSE IF valueTokens = <<>> THEN same
        ELSE IF Len(valueTokens) > 2 THEN same
        ELSE IF isResetKeyword(modelArg)
        THEN [sessions |-> noEffort(storeSetModel(withProvider(s), chatKey, target, <<>>)),
              persisted |-> TRUE]
        ELSE IF target = "claude"
        THEN [sessions |-> noEffort(storeSetModel(withProvider(s), chatKey, target,
                                                   Chars(modelArg))),
              persisted |-> TRUE]
        ELSE IF effortArg # "" /\ ~isResetKeyword(effortArg)
                /\ (effortArg \notin CODEX_REASONING_EFFORT_SET \/ ~supported)
        THEN same
        ELSE LET e == IF effortArg = "" THEN s
                      ELSE IF isResetKeyword(effortArg) THEN noEffort(s)
                      ELSE storeSetReasoningEffort(s, chatKey, target, Chars(effortArg))
             IN  [sessions |-> storeSetModel(withProvider(e), chatKey, target,
                                             Chars(modelArg)),
                  persisted |-> TRUE]

\* botLog after a handler made a chat-service operation for a sender
\* (args: the tokens of a /model command, <<>> for the other handlers).
Logged(user, op, args) ==
    botLog \cup {[sender |-> user, op |-> op, args |-> args]}

\* A command update is handled.
CommandHandled ==
    /\ ops < MaxCommands
    /\ ops' = ops + 1
    /\ UNCHANGED <<truncation, diskVars, pipeVars, coVars, config, lockVars>>

\* bot.command("init").
BotInit(user) ==
    /\ CommandHandled
    /\ IF ownerUserId = <<>>
       THEN /\ ownerUserId' = setOwnerUserId(user)
            /\ ownerFile' = ownerUserId'
       ELSE UNCHANGED <<ownerUserId, ownerFile>>
    /\ UNCHANGED <<sessions, file, botLog>>

\* bot.command("reset").
BotReset(user, chatKey) ==
    /\ CommandHandled
    /\ IF ensureOwner(user)
       THEN /\ sessions' = storeReset(sessions, chatKey)
            /\ file' = PersistedDocument(sessions')
            /\ botLog' = Logged(user, "reset", <<>>)
       ELSE UNCHANGED <<sessions, file, botLog>>
    /\ UNCHANGED <<ownerUserId, ownerFile>>

\* bot.command("uid"): a reply, with or without the user id.
BotUid(user) ==
    /\ CommandHandled
    /\ UNCHANGED <<sessions, file, botVars>>

\* bot.command("models"): the getters of the chat service.
BotModels(user, chatKey) ==
    /\ CommandHandled
    /\ IF ensureOwner(user)
       THEN /\ sessions' = getOrCreate(sessions, chatKey)
            /\ botLog' = Logged(user, "read", <<>>)
       ELSE UNCHANGED <<sessions, botLog>>
    /\ UNCHANGED <<file, ownerUserId, ownerFile>>

\* bot.command("model").
BotModel(user, chatKey, args, supported) ==
    /\ CommandHandled
    /\ IF ensureOwner(user)
       THEN LET result == modelCommand(sessions, chatKey, args, supported)
            IN  /\ sessions' = result.sessions
                /\ file' = IF result.persisted
                           THEN PersistedDocument(result.sessions) ELSE file
                /\ botLog' = Logged(user, "model", args)
       ELSE UNCHANGED <<sessions, file, botLog>>
    /\ UNCHANGED <<ownerUserId, ownerFile>>

\* bot.on("text") of an owner, up to the first await inside askStream:
\* getProvider, then askStream.
BotText(user, chatKey, r) ==
    /\ r <= MaxTexts
    /\ ensureOwner(user)
    /\ AskStreamCalled(r, chatKey)
    /\ sessions' = getOrCreate(sessions, chatKey)
    /\ botLog' = Logged(user, "askStream", <<>>)
    /\ UNCHANGED <<ownerUserId, ownerFile>>

\* bot.on("text") of anybody else: a reply, nothing more.
BotTextRefused(user) ==
    /\ ~ensureOwner(user)
    /\ UNCHANGED vars

\* The process is stopped and started again: the owner store and the
\* session store are constructed on their files, and the calls of
\* askStream that were under way are gone.
BotRestart ==
    /\ ops < MaxCommands
    /\ ops' = ops + 1
    /\ ownerUserId' = Trim(ownerFile)
    /\ sessions' = loadFromDisk(file)
    /\ chatLocks' = EmptyMap
    /\ pc' = [r \in Requests |->
                IF pc[r] \in {"waiting", "running"} THEN "aborted" ELSE pc[r]]
    /\ local' = [r \in Requests |-> IF pc'[r] = "aborted" THEN NoLocal ELSE local[r]]
    /\ UNCHANGED <<truncation, diskVars, pipeVars, coVars, config, file, key, userText,
                   previous, released, ownerFile, botLog>>

BotNext ==
    \/ \E u \in Users : BotInit(u)
    \/ \E u \in Users, k \in Keys : BotReset(u, k)
    \/ \E u \in Users : BotUid(u)
    \/ \E u \in Users, k \in Keys : BotModels(u, k)
    \/ \E u \in Users, k \in Keys, args \in ModelArgs, supported \in BOOLEAN :
            BotModel(u, k, args, supported)
    \/ \E u \in Users, k \in Keys, r \in Requests : BotText(u, k, r)
    \/ \E u \in Users : BotTextRefused(u)
    \/ BotRestart
    \/ \E r \in Requests : Begin(r)
    \/ \E r \in Requests, a \in Replies : AdapterReturn(r, a)
    \/ \E r \in Requests : AdapterThrow(r)

\* The bot is started on a service with a configured provider, with no
\* owner file and no store file.
BotStart ==
    /\ Init
    /\ providers # {}
    /\ systemPrompt # ""

BotSpec ==
    BotStart /\ [][BotNext]_vars

(***************************************************************************)
(* Properties of the conversation orchestrator.                            *)
(***************************************************************************)
\* The task of a call has begun.
Began(r) ==
    pc[r] \in {"running", "done", "failed"}

\* C1: for every conversation key at most one askStream task body is
\* executing at any time.
C1_SingleFlight ==
    \A k \in Keys :
        Cardinality({r \in Requests : key[r] = k /\ pc[r] = "running"}) <= 1

\* A second call on the key of a running call is queued behind it.
C1_Witness ==
    \E r1, r2 \in Requests :
        /\ key[r1] = key[r2]
        /\ pc[r1] = "running"
        /\ pc[r2] = "waiting"
        /\ previous[r2] = r1

\* The history part of the prompt a running call has built.
PromptHistory(r) ==
    LET p == local[r].prompt
        first == IF systemPrompt # "" THEN 2 ELSE 1
    IN  SubSeq(p, first, Len(p) - 1)

\* C2: while an askStream on a key is in flight, the session state of the
\* key is what the call read when it built its prompt: no reset and no
\* setter on the key takes effect before the call commits or fails.
C2_NoChangeInFlight ==
    \A r \in Requests :
        pc[r] = "running" =>
            /\ key[r] \in DOMAIN sessions
            /\ sessions[key[r]].history = PromptHistory(r)
            /\ sessions[key[r]].provider = local[r].providerName
            /\ OverrideOf(sessions[key[r]].modelOverrides, local[r].providerName)
                   = local[r].model
            /\ OverrideOf(sessions[key[r]].reasoningEffortOverrides,
                          local[r].providerName) = local[r].effort

\* C3: a call on key "b" whose own adapter invocations terminate completes,
\* whatever the calls on another key do, even if they never return.
C3_OtherKeyCompletes ==
    \A r \in Requests :
        (pc[r] = "waiting" /\ key[r] = "b") ~> (pc[r] \in Terminal)

\* A later call on "b" is done while an earlier call on "a" is still running.
C3_Witness ==
    \E r1, r2 \in Requests :
        /\ r1 < r2
        /\ key[r1] = "a" /\ pc[r1] = "running"
        /\ key[r2] = "b" /\ pc[r2] = "done"

\* C4: calls on the same key run in arrival order (calls are issued in the
\* order of their numbers): when the task of a call has begun, the task of
\* every earlier call on the key has finished or failed.
C4_ArrivalOrder ==
    \A r1, r2 \in Requests :
        (r1 < r2 /\ key[r1] = key[r2] /\ Began(r2)) => pc[r1] \in Terminal

\* A chain of three calls on one key: finished, running, queued.
C4_Witness ==
    \E r1, r2, r3 \in Requests :
        /\ pc[r1] \in Terminal /\ pc[r2] = "running" /\ pc[r3] = "waiting"
        /\ previous[r2] = r1 /\ previous[r3] = r2

\* Every earlier call on the key of r has finished or failed.
EarlierTerminated(r) ==
    \A q \in Requests : (q < r /\ key[q] = key[r]) => pc[q] \in Terminal

\* C5: the slot is always released: a queued call starts once every earlier
\* call on its key has terminated, whether it returned or threw.
C5_SlotReleased ==
    \A r \in Requests :
        (pc[r] = "waiting" /\ EarlierTerminated(r)) ~> (pc[r] # "waiting")

\* A call that was queued behind a call that threw has started.
C5_Witness ==
    \E q, r \in Requests :
        /\ previous[r] = q
        /\ pc[q] = "failed"
        /\ pc[r] \in {"running", "done"}

\* C6: an askStream that fails leaves every history as it was: neither the
\* start of its task nor the step in which it throws changes a history.
C6_FailureKeepsHistory ==
    [][\A r \in Requests :
          (\/ pc[r] = "waiting" /\ pc'[r] # "waiting"
           \/ pc[r] # "failed" /\ pc'[r] = "failed")
          => \A k \in Keys : Hist(k)' = Hist(k)]_vars

\* A call failed in its adapter on a key that has a history.
C6_Witness ==
    \E r \in Requests :
        /\ pc[r] = "failed"
        /\ providers # {}
        /\ Hist(key[r]) # <<>>

\* The trimming rule as the claim states it: keep the newest maxHistory
\* entries, then drop a leading assistant entry.
ClaimedTrim(seq) ==
    LET n == IF Len(seq) < maxHistory THEN Len(seq) ELSE maxHistory
        newest == [i \in 1..n |-> seq[Len(seq) - n + i]]
    IN  IF n > 0 /\ newest[1].role = "assistant" THEN Tail(newest) ELSE newest

\* s is a suffix of seq, in unchanged order.
IsSuffix(s, seq) ==
    /\ Len(s) <= Len(seq)
    /\ \A i \in 1..Len(s) : s[i] = seq[Len(seq) - Len(s) + i]

\* C7: when askStream succeeds with reply R for user text U, the history of
\* the key becomes the previous history followed by {user, U} and
\* {assistant, R}, reduced by the trimming rule; what is kept is a suffix.
C7_SuccessAppends ==
    [][\A r \in Requests :
          (pc[r] = "running" /\ pc'[r] = "done") =>
              \E a \in Replies :
                  LET full == Hist(key[r]) \o
                              <<[role |-> "user", content |-> userText[r]],
                                [role |-> "assistant", content |-> a]>>
                  IN  /\ Hist(key[r])' = ClaimedTrim(full)
                      /\ IsSuffix(Hist(key[r])', full)]_vars

\* A call committed its exchange and an earlier exchange of the key was
\* trimmed away.
C7_Witness ==
    \E q, r \in Requests :
        /\ q < r /\ key[q] = key[r]
        /\ pc[q] = "done" /\ pc[r] = "done"
        /\ Len(Hist(key[r])) >= 2
        /\ Hist(key[r])[Len(Hist(key[r])) - 1].content = userText[r]
        /\ \A i \in 1..Len(Hist(key[r])) : Hist(key[r])[i].content # userText[q]

\* The provider the store holds for the key of a call (getProvider creates
\* the session of a new key with the default provider).
StoredProvider(r) ==
    getOrCreate(sessions, key[r])[key[r]].provider

\* The name is the first one registered among the configured providers.
IsFirstConfigured(name) ==
    \E i \in 1..Len(providerNames) :
        /\ providerNames[i] = name
        /\ name \in providers
        /\ \A j \in 1..(i - 1) : providerNames[j] \notin providers

\* C34: when the task of askStream starts and the stored provider of the
\* session is not configured, then with some provider configured the call
\* is made on the first configured one and the session, in memory and in
\* the store file, holds it as its provider; with no provider configured
\* the call fails without reaching an adapter.  A call that runs always
\* runs on a configured provider.
C34_ProviderFallback ==
    /\ [](\A r \in Requests :
            /\ pc[r] = "running" => local[r].providerName \in providers
            /\ pc[r] \in {"running", "done"} => providers # {})
    /\ [][\A r \in Requests :
            (pc[r] = "waiting" /\ pc'[r] # "waiting" /\ StoredProvider(r) \notin providers) =>
                IF providers # {}
                THEN /\ pc'[r] = "running"
                     /\ IsFirstConfigured(local'[r].providerName)
                     /\ sessions'[key[r]].provider = local'[r].providerName
                     /\ file' = PersistedDocument(sessions')
                ELSE /\ pc'[r] = "failed"
                     /\ local'[r] = NoLocal]_vars

\* A call runs on codex, the only configured provider, while the default
\* provider is claude: the session and the store file hold codex.
C34_Witness ==
    \E r \in Requests :
        /\ pc[r] = "running"
        /\ local[r].providerName # defaultProvider
        /\ key[r] \in DOMAIN sessions
        /\ sessions[key[r]].provider = local[r].providerName
        /\ sessions[key[r]].history = <<>>
        /\ file = PersistedDocument(sessions)

\* The call has entered withChatLock and not left it.
InLock(r) ==
    pc[r] \in {"waiting", "running"}

\* C36: the lock map has an entry for a key exactly while some askStream
\* call on that key is waiting or running, and the entry is the tail of
\* the call that arrived last: it is gone once every call on the key has
\* finished, and it is never taken away from under a call that waits.
C36_LockEntryLifetime ==
    /\ \A k \in DOMAIN chatLocks :
          /\ InLock(chatLocks[k])
          /\ key[chatLocks[k]] = k
          /\ \A r \in Requests : (InLock(r) /\ key[r] = k) => r <= chatLocks[k]
    /\ \A r \in Requests : InLock(r) => key[r] \in DOMAIN chatLocks

\* The second call on "a" finished while the third was waiting behind it:
\* the entry of "a" is still there, for the third call; the entry of "b"
\* went with its only call.
C36_Witness ==
    /\ key = <<"b", "a", "a">>
    /\ pc = <<"done", "done", "running">>
    /\ previous[3] = 2
    /\ DOMAIN chatLocks = {"a"}
    /\ chatLocks["a"] = 3

\* q is the last call before r on the key of r that succeeded.
LastSuccessBefore(q, r) ==
    /\ q < r
    /\ key[q] = key[r]
    /\ pc[q] = "done"
    /\ \A m \in Requests : (q < m /\ m < r /\ key[m] = key[r]) => pc[m] # "done"

\* C37: when a call on a key succeeded and no other operation of the
\* service was called, the prompt of the next call on the key that runs
\* has, as its last turns before the new user text, the user text and the
\* reply of that call, whether the next call was made before or after the
\* first one finished.
C37_NextPromptHasExchange ==
    \A q, r \in Requests :
        (pc[r] = "running" /\ ops = 0 /\ LastSuccessBefore(q, r)) =>
            LET h == PromptHistory(r)
            IN  /\ Len(h) >= 2
                /\ h[Len(h) - 1] = [role |-> "user", content |-> userText[q]]
                /\ h[Len(h)].role = "assistant"
                /\ h[Len(h)].content \in Replies
                /\ local[r].prompt[Len(local[r].prompt)] =
                       [role |-> "user", content |-> userText[r]]

\* The second call was made while the first was running; the first
\* succeeded, and the second runs with the first exchange in its prompt.
C37_Witness ==
    /\ key[1] = key[2]
    /\ previous[2] = 1
    /\ pc[1] = "done"
    /\ pc[2] = "running"
    /\ ops = 0
    /\ PromptHistory(2) = <<[role |-> "user", content |-> userText[1]],
                            [role |-> "assistant", content |-> "r1"]>>

\* The history is a sequence of whole exchanges: user, assistant, ...
Alternates(history) ==
    /\ Len(history) % 2 = 0
    /\ \A i \in 1..Len(history) :
          history[i].role = IF i % 2 = 1 THEN "user" ELSE "assistant"

\* C38: starting from an empty store, every session history has even
\* length and alternates user, assistant, ending with an assistant
\* message, for MAX_HISTORY 2, 3 and 4.
C38_HistoryAlternates ==
    \A k \in DOMAIN sessions : Alternates(sessions[k].history)

\* With MAX_HISTORY 3, two exchanges were appended to a key and nothing
\* else was called: the slice of three entries began with the assistant
\* message of the first exchange and only the second exchange is left.
C38_Witness ==
    /\ maxHistory = MinMaxHistory + 1
    /\ ops = 0
    /\ key[1] = key[2]
    /\ pc[1] = "done"
    /\ pc[2] = "done"
    /\ pc[3] = "idle"
    /\ Hist(key[2]) = <<[role |-> "user", content |-> userText[2]],
                        [role |-> "assistant", content |-> "r1"]>>

(***************************************************************************)
(* Properties of the coalescer.                                            *)
(***************************************************************************)
\* The coalescer has come to rest after the final flush: flush was called
\* and no drain loop is active.
AtRestAfterFlush ==
    flushCall.state # "none" /\ drain.pc = "idle"

\* C10: after any queue calls and one final flush(v), once the coalescer is
\* at rest the last text passed to edit is v.
C10_FlushValuePublishedLast ==
    AtRestAfterFlush =>
        /\ published # <<>>
        /\ published[Len(published)].text = flushCall.text

\* C11: no call of edit starts less than intervalMs after the previous
\* successful edit completed: in every step that calls edit, the clock is
\* at least IntervalTicks past the completion time of the last edit.
C11_MinimumInterval ==
    [][Len(published') > Len(published) =>
          now' - lastEditAt' >= IntervalTicks]_vars

\* A second edit was started exactly IntervalTicks after the first one
\* completed, the loop having slept in between.
C11_Witness ==
    /\ drain.pc = "editing"
    /\ lastApplied # ""
    /\ Len(published) >= 2
    /\ published[Len(published)].at = lastEditAt + IntervalTicks

\* C12: the promise of flush(v) resolves only after the drain loop has
\* completed and v has been applied, also when flush is called while a
\* drain started by queue is waiting or publishing.
C12_FlushResolvesAfterApplied ==
    flushCall.state = "resolved" =>
        /\ drain.pc = "idle"
        /\ lastApplied = flushCall.text

\* C13: flush(v) always calls edit with v, even when v is the text that
\* was applied last: once flush has resolved and the coalescer is at rest,
\* a call of edit made after the call of flush carried v.
C13_FlushAlwaysPublishes ==
    (flushCall.state = "resolved" /\ drain.pc = "idle") =>
        \E i \in (flushCall.from + 1)..Len(published) :
            published[i].text = flushCall.text

\* C40: the text of the final flush is not lost: once the coalescer is at
\* rest after flush(v), with v not the text applied last, either edit was
\* called with v after the call of flush or the promise of flush rejected.
C40_FinalValueNotLost ==
    (AtRestAfterFlush /\ flushCall.text # lastApplied) =>
        \/ flushCall.state = "rejected"
        \/ \E i \in (flushCall.from + 1)..Len(published) :
               published[i].text = flushCall.text

(***************************************************************************)
(* Properties of the executor.                                             *)
(***************************************************************************)
\* The lines of an output: the complete lines and the trailing text, each
\* trimmed, the empty ones dropped.
AllLines(out) ==
    LinesIn(out) \o (IF Trim(RestOf(out)) # <<>> THEN <<Trim(RestOf(out))>> ELSE <<>>)

IsStart(d) ==
    d.kind = "start"

\* The lines for which a handler call has started, in the order of the calls.
StartedLines ==
    LET starts == SelectSeq(deliveries, IsStart)
    IN  [i \in 1..Len(starts) |-> starts[i].line]

\* s is a prefix of seq.
IsPrefix(s, seq) ==
    /\ Len(s) <= Len(seq)
    /\ \A i \in 1..Len(s) : s[i] = seq[i]

\* C14: the lines are handed to the handler in the order they arrived, one
\* at a time: the calls made so far are for the first lines of the output,
\* in order, and every call has ended before the next one starts, whatever
\* the chunks were.
C14_InOrderOneAtATime ==
    /\ IsPrefix(StartedLines, AllLines(output))
    /\ \A i \in 1..(Len(deliveries) - 1) :
          deliveries[i].kind = "start" =>
              /\ deliveries[i + 1].kind # "start"
              /\ deliveries[i + 1].line = deliveries[i].line

\* A call is running after an earlier one ended, with a further line
\* chained behind it.
C14_Witness ==
    /\ handling.state = "running"
    /\ callbackQueue.lines # <<>>
    /\ \E i \in 1..Len(deliveries) : deliveries[i].kind = "end"

\* A handler call has failed.
HandlerFailed ==
    \E i \in 1..Len(deliveries) : deliveries[i].kind = "fail"

\* C15: once a handler call has failed, kill has been called on the child
\* and the invocation is rejected with the handler's failure; it is never
\* resolved, whether the failure comes before or after the close event.
C15_HandlerFailureRejects ==
    HandlerFailed =>
        /\ child.killed
        /\ settled.state = "rejected"
        /\ settled.error = "handler"

\* The handler call failed after the close event had been handled.
C15_Witness ==
    /\ HandlerFailed
    /\ closing.awaiting
    /\ child.state = "closed"

\* The output ends with a non-empty line without line feed.
EndsUnterminated ==
    Trim(RestOf(output)) # <<>>

\* C31: when the output ends with a non-empty line without line feed and
\* no handler call has failed, then from the close event on the lines
\* handed to the handler and those still chained are, in order, the lines
\* of the output, the trailing line once and last; and when the invocation
\* has resolved, the call for the trailing line was the last call, made
\* after every other one, and it has completed.
C31_TrailingLineDelivered ==
    (child.state = "closed" /\ EndsUnterminated /\ ~failed) =>
        /\ StartedLines \o callbackQueue.lines = AllLines(output)
        /\ AllLines(output)[Len(AllLines(output))] = Trim(RestOf(output))
        /\ settled.state # "rejected"
        /\ settled.state = "resolved" =>
              /\ StartedLines = AllLines(output)
              /\ Len(deliveries) = 2 * Len(AllLines(output))
              /\ deliveries[Len(deliveries)] =
                     [kind |-> "end", line |-> Trim(RestOf(output))]

\* The invocation resolved after a complete line and a trailing line
\* without line feed were both handled.
C31_Witness ==
    /\ settled.state = "resolved"
    /\ EndsUnterminated
    /\ Len(LinesIn(output)) >= 1
    /\ Len(deliveries) = 2 * (Len(LinesIn(output)) + 1)

\* C39: when the invocation has resolved, every handler call that was
\* chained has been made and has completed: no call is chained or
\* running, the calls made are for all the lines of the output, and each
\* has ended without failing.
C39_ResolvesAfterHandlers ==
    settled.state = "resolved" =>
        /\ child.state = "closed"
        /\ callbackQueue.lines = <<>>
        /\ handling.state = "none"
        /\ StartedLines = AllLines(output)
        /\ \A i \in 1..Len(deliveries) :
              /\ deliveries[i].kind # "fail"
              /\ deliveries[i].kind = "start" =>
                    /\ i < Len(deliveries)
                    /\ deliveries[i + 1] = [kind |-> "end", line |-> deliveries[i].line]

\* The output held two lines; the close handler waited for the call that
\* was still chained, and the invocation resolved after both calls ended.
C39_Witness ==
    /\ settled.state = "resolved"
    /\ Len(LinesIn(output)) = 2
    /\ ~EndsUnterminated
    /\ Len(deliveries) = 4

\* The history the store holds for a key (none for a key without session).
HistoryOf(s, chatKey) ==
    IF chatKey \in DOMAIN s THEN s[chatKey].history ELSE <<>>

\* C20: the prompt built when a task starts is the system message (if one
\* is configured), then the stored history of the key, then the new user
\* message, and building it leaves the stored history of every key as it
\* was.
C20_BuildPromptFrame ==
    [][\A r \in Requests :
          (pc[r] = "waiting" /\ pc'[r] = "running") =>
              /\ local'[r].prompt =
                     (IF systemPrompt # ""
                      THEN <<[role |-> "system", content |-> systemPrompt]>>
                      ELSE <<>>)
                     \o HistoryOf(sessions, key[r])
                     \o <<[role |-> "user", content |-> userText[r]]>>
              /\ \A k \in Keys : HistoryOf(sessions', k) = HistoryOf(sessions, k)]_vars

\* A task is running with a prompt made of the system message, a stored
\* exchange and the new user message, and the stored history still holds
\* just that exchange.
C20_Witness ==
    \E r \in Requests :
        /\ pc[r] = "running"
        /\ Len(local[r].prompt) = 4
        /\ local[r].prompt[1].role = "system"
        /\ local[r].prompt[3].role = "assistant"
        /\ local[r].prompt[4] = [role |-> "user", content |-> userText[r]]
        /\ Len(HistoryOf(sessions, key[r])) = 2

\* The texts of the calls of edit, in order.
PublishedTexts ==
    [i \in 1..Len(published) |-> published[i].text]

\* Whether s can be obtained from seq by dropping elements.
RECURSIVE IsSubsequence(_, _)
IsSubsequence(s, seq) ==
    IF s = <<>> THEN TRUE
    ELSE IF seq = <<>> THEN FALSE
    ELSE IF Head(s) = Head(seq) THEN IsSubsequence(Tail(s), Tail(seq))
    ELSE IsSubsequence(s, Tail(seq))

\* The drain loop takes the pending text in this step (`text = pending`,
\* followed by the wait or the edit).
Takes ==
    /\ drain.pc \in {"idle", "editing"}
    /\ drain'.pc \in {"sleeping", "editing"}
    /\ drain' # drain

\* C28: there is at most one pending text, and it is the one handed in
\* last; the text the drain loop takes is the one handed in last at that
\* moment, and taking it leaves nothing pending; edit is called with the
\* text that was taken; and the texts edit was called with are, in order,
\* a subsequence of the texts handed in.
C28_LatestOnly ==
    /\ [](/\ Len(pending) <= 1
          /\ pending # <<>> => pending[1] = calls[Len(calls)]
          /\ drain.pc = "editing" => published[Len(published)].text = drain.text
          /\ IsSubsequence(PublishedTexts, calls))
    /\ [][Takes => (drain'.text = calls'[Len(calls')] /\ pending' = <<>>)]_vars

\* "y" was handed in while the edit of "x" was under way and was replaced
\* by a later text before the loop came back: it was never published.
C28_Witness ==
    /\ calls = <<"x", "y", "x">>
    /\ drain.pc = "idle"
    /\ pending = <<>>
    /\ lastApplied = "x"
    /\ \A i \in 1..Len(published) : published[i].text # "y"

\* C29: a drain loop started by queue never calls edit with the text of
\* the last successful edit: the text such a loop holds, waiting or
\* editing, differs from the text applied last, and so does the text of
\* every call of edit it makes, at the moment of the call.
C29_DuplicateSkipped ==
    /\ []((drain.owner = "queue" /\ drain.pc \in {"sleeping", "editing"})
            => drain.text # lastApplied)
    /\ [][(Len(published') > Len(published) /\ drain'.owner = "queue")
            => published'[Len(published')].text # lastApplied']_vars

\* "x" was applied and then queued again: edit was called once only.
C29_Witness ==
    /\ calls = <<"x", "x">>
    /\ flushCall.state = "none"
    /\ PublishedTexts = <<"x">>
    /\ lastApplied = "x"
    /\ drain = DrainIdle
    /\ ~processing

\* C30: one drain loop at most is active and one call of edit at most is
\* in flight: the processing flag is set exactly while the loop is active;
\* a call of queue or flush made while the loop is active starts no loop
\* and no edit; and a call of edit starts while another is in flight only
\* in the step in which that one returns.
C30_OneDrainLoop ==
    /\ [](processing <=> drain.pc # "idle")
    /\ [][(processing /\ calls' # calls)
            => (drain' = drain /\ published' = published /\ processing')]_vars
    /\ [][(drain.pc = "editing" /\ published' # published)
            => (lastApplied' = drain.text /\ lastEditAt' = now)]_vars
    /\ [][Len(published') <= Len(published) + 1]_vars

\* queue and then flush were called while the first edit was in flight:
\* flush returned at once and the one edit is still the only one.
C30_Witness ==
    /\ drain.pc = "editing"
    /\ drain.owner = "queue"
    /\ processing
    /\ Len(calls) = 3
    /\ Len(published) = 1
    /\ flushCall.state = "resolved"
    /\ pending = <<flushCall.text>>

(***************************************************************************)
(* Properties of the adapters.                                             *)
(***************************************************************************)
\* C16: after a terminal success line (claude `result`, codex
\* `response.completed`) has been processed, exactly one text callback was
\* made for it, no later line makes a status or text callback, and the
\* reply stream returns is the text of that line.
C16_NothingAfterTerminal ==
    seen.terminal.seen =>
        /\ seen.terminal.emitted > 0
        /\ emitted[seen.terminal.emitted] = OnText(seen.terminal.text)
        /\ Len(emitted) = seen.terminal.emitted
        /\ stream.state = "returned" => stream.value = Trim(seen.terminal.text)

\* C17: for both adapters, after a structured terminal error line (claude
\* `result` with is_error, codex `error` or `turn.failed`) the call fails
\* with the message of the error and never returns a reply, whatever text
\* came before or after and whatever the exit code is.
C17_StructuredErrorFails ==
    (seen.error.seen /\ stream.state # "pending") =>
        /\ stream.state = "threw"
        /\ stream.error \in {"structured", "exit"}
        /\ seen.error.message # <<>> => stream.detail # <<>>

\* C18 as stated: for the codex adapter, a non-zero exit code after a
\* non-empty reply text makes stream return the trimmed text.
C18_AsStated ==
    (/\ adapter = "codex"
     /\ seen.exit.seen
     /\ seen.exit.code # 0
     /\ Trim(runningReply) # <<>>)
    => stream = Returned(Trim(runningReply))

\* C18: for the codex adapter, a non-zero exit code after a non-empty reply
\* text makes stream return the trimmed text, provided no `error` or
\* `turn.failed` line carrying a message was received.
C18_TolerantExit ==
    (/\ adapter = "codex"
     /\ seen.exit.seen
     /\ seen.exit.code # 0
     /\ Trim(runningReply) # <<>>
     /\ cliErrorMessage = <<>>)
    => stream = Returned(Trim(runningReply))

\* The codex child exited with code 1 after a reply of more than one
\* event, and stream returned the reply.
C18_Witness ==
    /\ adapter = "codex"
    /\ seen.exit.seen
    /\ seen.exit.code = 1
    /\ stream.state = "returned"
    /\ Len(emitted) >= 2

\* The final reply of a call: `(finalResult || reply).trim()` for claude,
\* `reply.trim()` for codex.
FinalReplyText ==
    Trim(IF adapter = "claude" /\ finalResult # <<>> THEN finalResult ELSE runningReply)

\* C19: for both adapters, an exit code of zero with an empty or
\* whitespace-only final reply makes stream fail with the empty-reply error.
C19_EmptyReplyFails ==
    (seen.exit.seen /\ seen.exit.code = 0 /\ FinalReplyText = <<>>) =>
        /\ stream.state = "threw"
        /\ stream.error = "empty"

\* The child exited with code 0 after text callbacks that carried only
\* blanks, and stream failed with the empty-reply error.
C19_Witness ==
    /\ seen.exit.seen
    /\ seen.exit.code = 0
    /\ emitted # <<>>
    /\ emitted[Len(emitted)] = OnText(Blank)
    /\ stream = Threw("empty", <<>>)

IsText(e) ==
    e.kind = "text"

\* The calls of onText made so far, in order.
TextCallbacks ==
    SelectSeq(emitted, IsText)

\* The event replaces the whole reply.
FullReplacement(line) ==
    line.type \in {"assistant", "result", "item.completed", "response.completed"}

\* The event carries a piece of text to append.
Delta(line) ==
    line.type \in {"stream_event", "response.output_text.delta"}

\* What C32 says of a step in which onLine handles the line without
\* throwing.  The text of an assistant message is what
\* extractAssistantText makes of it; one without text is no event.
CarriesWholeReply(line) ==
    IF line.type = "noise"
    THEN /\ emitted' = emitted
         /\ runningReply' = runningReply
         /\ finalResult' = finalResult
    ELSE IF line.type = "item.started"
    THEN /\ runningReply' = runningReply
         /\ TextCallbacks' = TextCallbacks
    ELSE IF Delta(line)
    THEN /\ runningReply' = runningReply \o line.text
         /\ emitted' = Append(emitted, OnText(runningReply \o line.text))
    ELSE IF line.type = "assistant"
    THEN IF Trim(line.text) # <<>>
         THEN /\ runningReply' = Trim(line.text)
              /\ emitted' = Append(emitted, OnText(Trim(line.text)))
         ELSE emitted' = emitted /\ runningReply' = runningReply
    ELSE IF FullReplacement(line) /\ ~line.is_error
    THEN emitted' = Append(emitted, OnText(line.text))
    ELSE TRUE

\* C32: every call of onText carries the whole current reply.  The last
\* text handed to onText is the running reply (for the claude adapter the
\* running reply or the final result, whichever was assigned last); a
\* full replacement hands on the text of the event; a delta hands on the
\* running reply with the delta appended; a status notice and a line that
\* is not JSON leave the running reply as it is, and a line that is not
\* JSON makes no callback.
C32_TextIsWholeReply ==
    /\ [](TextCallbacks # <<>> =>
            IF adapter = "codex"
            THEN TextCallbacks[Len(TextCallbacks)].text = runningReply
            ELSE TextCallbacks[Len(TextCallbacks)].text \in {runningReply, finalResult})
    /\ [][\A line \in CodexLines : CodexLine(line) => CarriesWholeReply(line)]_vars
    /\ [][\A line \in ClaudeLines : ClaudeLine(line) => CarriesWholeReply(line)]_vars

\* The codex adapter handled an agent message, a delta, a command notice
\* and one line without callback: the second text callback carried both
\* pieces.
C32_Witness ==
    /\ adapter = "codex"
    /\ seen.lines = 4
    /\ emitted = <<OnText(<<"a">>), OnText(<<"a", "d">>), OnStatus(<<"c">>)>>
    /\ runningReply = <<"a", "d">>
    /\ cliErrorMessage = <<>>

\* C33: when the executor of the claude adapter resolved with an exit code
\* other than 0, stream has failed with the exit error, whatever reply and
\* final result it had received.
C33_ClaudeStrictExit ==
    (adapter = "claude" /\ seen.exit.seen /\ seen.exit.code # 0) =>
        /\ stream.state = "threw"
        /\ stream.error = "exit"

\* The claude CLI wrote an assistant message and a result with text and
\* then exited with code 1: stream failed.
C33_Witness ==
    /\ adapter = "claude"
    /\ seen.exit.seen
    /\ seen.exit.code # 0
    /\ Trim(runningReply) # <<>>
    /\ Trim(finalResult) # <<>>
    /\ seen.terminal.seen
    /\ stream.state = "threw"

(***************************************************************************)
(* Claims about the SessionStore.                                          *)
(***************************************************************************)
\* C8: in every state of the session store, after any sequence of
\* appendExchange, reset and setters and after loading from the durable
\* file, every session's history holds at most maxHistory messages.
C8_HistoryBounded ==
    \A k \in DOMAIN sessions : Len(sessions[k].history) <= maxHistory

\* Exchanges were appended and persisted, and the file was loaded again
\* under a smaller maxHistory: the history was cut down to exactly
\* maxHistory messages.
C8_Witness ==
    /\ file.kind = "json"
    /\ \E k \in DOMAIN sessions :
        /\ Len(sessions[k].history) = maxHistory
        /\ k \in DOMAIN file.sessions
        /\ Len(file.sessions[k].history) > maxHistory
        /\ file.sessions[k].history[1].content \in UserTexts

\* C9: in every state of the session store, including after the file the
\* store wrote is loaded again, a non-empty history starts with a user
\* message.
C9_FirstIsUser ==
    \A k \in DOMAIN sessions :
        sessions[k].history # <<>> => sessions[k].history[1].role = "user"

\* A history that was loaded from the store's own file and lost its oldest
\* messages in the load: the cut fell on an assistant message.
C9_Witness ==
    \E k \in DOMAIN sessions :
        /\ k \in DOMAIN file.sessions
        /\ sessions[k].history # <<>>
        /\ Len(file.sessions[k].history) > maxHistory
        /\ Len(sessions[k].history) < maxHistory

\* The store file holds a version 1 document whose session map is the
\* session map in memory.
FileEqualsMemory ==
    /\ file.kind = "json"
    /\ file.version = 1
    /\ file.sessions = sessions

\* C35: when setProvider, setModel, setReasoningEffort, reset or
\* appendExchange returns, the session map of the store file is the
\* session map in memory, sessions created by earlier getters included.
C35_PersistAfterMutation ==
    [][FileEqualsMemory' \/
       ~(\/ \E k \in Keys : StoreReset(k)
         \/ \E k \in Keys, u \in UserTexts, a \in Replies :
                StoreAppendExchange(k, u, a)
         \/ \E k \in Keys, p \in ProviderNameSet : StoreSetProvider(k, p)
         \/ \E k \in Keys, p \in ProviderNameSet, m \in OverrideInputs :
                StoreSetModel(k, p, m)
         \/ \E k \in Keys, p \in ProviderNameSet, e \in OverrideInputs :
                StoreSetReasoningEffort(k, p, e))]_vars

\* The session of "b" was created by a getter and has seen no mutation
\* of its own; the store file holds it since appendExchange on "a".
C35_Witness ==
    /\ FileEqualsMemory
    /\ DOMAIN sessions = {"a", "b"}
    /\ sessions["b"] = NewSession
    /\ Len(sessions["a"].history) = 2
    /\ sessions["a"].modelOverrides = EmptyMap

\* C21: a step of reset(K) leaves no session for K, so that a later read
\* of K sees the defaults (default provider, empty history, no overrides),
\* and leaves the session of every other key as it was.
C21_ResetRemovesOnlyKey ==
    [][\A k \in Keys :
          Reset(k) =>
              /\ k \notin DOMAIN sessions'
              /\ getOrCreate(sessions', k)[k] =
                     [provider |-> defaultProvider, history |-> <<>>,
                      modelOverrides |-> EmptyMap,
                      reasoningEffortOverrides |-> EmptyMap]
              /\ \A j \in Keys \ {k} :
                     /\ (j \in DOMAIN sessions') = (j \in DOMAIN sessions)
                     /\ j \in DOMAIN sessions => sessions'[j] = sessions[j]]_vars

\* A call for one key returned (its exchange was stored) and that key has
\* no session any more, while the other key still holds its exchange.
C21_Witness ==
    \E r \in Requests :
        /\ pc[r] = "done"
        /\ key[r] \notin DOMAIN sessions
        /\ \E j \in Keys \ {key[r]} :
               j \in DOMAIN sessions /\ Len(sessions[j].history) = 2

\* C23: in every state the store reaches, writing the store file and
\* constructing a new store on it with the same configuration gives the
\* same keys and, for each, the same provider, history and override maps.
C23_RoundTrip ==
    LET loaded == loadFromDisk(PersistedDocument(sessions))
    IN  /\ DOMAIN loaded = DOMAIN sessions
        /\ \A k \in DOMAIN sessions :
               /\ loaded[k].provider = sessions[k].provider
               /\ loaded[k].history = sessions[k].history
               /\ loaded[k].modelOverrides = sessions[k].modelOverrides
               /\ loaded[k].reasoningEffortOverrides = sessions[k].reasoningEffortOverrides

\* The store was saved and constructed again on its file, with a session
\* that holds an exchange, a provider other than the default and overrides
\* of both kinds.
C23_Witness ==
    /\ file = PersistedDocument(sessions)
    /\ sessions = loadFromDisk(file)
    /\ \E k \in DOMAIN sessions :
           /\ Len(sessions[k].history) >= 2
           /\ sessions[k].history[1].content \in UserTexts
           /\ sessions[k].provider # defaultProvider
           /\ sessions[k].modelOverrides # EmptyMap
           /\ sessions[k].reasoningEffortOverrides # EmptyMap

\* C24: wherever the process dies during persist, the store file is
\* absent or is a whole document that this or an earlier call of persist
\* was called to write; it is never a part of a document.
C24_StoreFileWhole ==
    /\ file.kind # "partial"
    /\ file.kind = "missing" \/ file \in snapshots

\* The process died while the temporary file held a part of a later
\* document: the store file is the earlier document, and the new store
\* was constructed from it.
C24_Witness ==
    /\ tempFile = PartialFile
    /\ persisting = "no"
    /\ file.kind = "json"
    /\ file.sessions # EmptyMap
    /\ sessions = loadFromDisk(file)
    /\ Cardinality(snapshots) >= 2

\* The store file is missing, does not parse, has a version other than 1,
\* or has a sessions field that is no map.
Unusable(f) ==
    f.kind \in {"missing", "garbage", "partial", "nomap"} \/ f.version # 1

\* C25: a store constructed on a file that is missing, unparsable, of
\* another version or without a sessions map starts with
\* getSessionCount() = 0, and stays usable.
C25_LoadTolerates ==
    Unusable(file) =>
        /\ Cardinality(DOMAIN loadFromDisk(file)) = 0
        /\ \A k \in DOMAIN sessions : sessions[k] = NewSession

\* A store was constructed on a document of version 2 that holds a
\* session, and a getter then created a session of its own.
C25_Witness ==
    /\ file.kind = "json"
    /\ file.version = 2
    /\ DOMAIN file.sessions # {}
    /\ \E k \in DOMAIN sessions : sessions[k] = NewSession

TargetOf(chatKey, args) ==
    IF args # <<>> /\ args[1] \in ProviderNameSet
    THEN args[1] ELSE getOrCreate(sessions, chatKey)[chatKey].provider

\* The value tokens of a /model command (what follows the provider).
ValuesOf(args) ==
    IF args # <<>> /\ args[1] \in ProviderNameSet THEN Tail(args) ELSE args

\* C22: a blank value handed to the store clears the model override and
\* the reasoning-effort override of a provider, and a /model command of
\* the owner whose model is "default" leaves both getters of the provider
\* absent, whatever had been set before; a "default" effort leaves the
\* effort getter absent.
C22_DefaultClears ==
    /\ [](\A k \in DOMAIN sessions, p \in ProviderNameSet, v \in {<<>>, Blank} :
             /\ OverrideOf(storeSetModel(sessions, k, p, v)[k].modelOverrides, p) = <<>>
             /\ OverrideOf(storeSetReasoningEffort(sessions, k, p, v)[k]
                               .reasoningEffortOverrides, p) = <<>>)
    /\ [][\A u \in Users, k \in Keys, args \in ModelArgs :
             (/\ ops' = ops + 1
              /\ ensureOwner(u)
              /\ TargetOf(k, args) \in providers
              /\ Len(ValuesOf(args)) \in {1, 2}
              /\ \E supported \in BOOLEAN : BotModel(u, k, args, supported))
             => LET p == TargetOf(k, args)
                    values == ValuesOf(args)
                IN  /\ Lower(values[1]) = "default"
                          => /\ OverrideOf(sessions'[k].modelOverrides, p) = <<>>
                             /\ OverrideOf(sessions'[k].reasoningEffortOverrides, p) = <<>>
                    /\ (Len(values) = 2 /\ Lower(values[2]) = "default")
                          => OverrideOf(sessions'[k].reasoningEffortOverrides, p) = <<>>]_vars

\* The owner set the codex model of a chat to "gpt-x" and sent "DEFAULT"
\* as the codex model, nobody reset a chat, and no chat has a codex model.
C22_Witness ==
    \E u \in Users :
        /\ [sender |-> u, op |-> "model", args |-> <<"codex", "gpt-x">>] \in botLog
        /\ [sender |-> u, op |-> "model", args |-> <<"codex", "DEFAULT">>] \in botLog
        /\ \A e \in botLog : e.op # "reset"
        /\ DOMAIN sessions # {}
        /\ \A k \in DOMAIN sessions :
               OverrideOf(sessions[k].modelOverrides, "codex") = <<>>

====
